---- MODULE Spec2Model ----
(***************************************************************************)
(* A model of the MP4 atom engine of vr180 (cpp/video): the binary reader  *)
(* and writer, the atom tree with its size bookkeeping, ReadAtom and       *)
(* WriteAtom, the chunk-offset table (stco/co64) and ModifyMoov in its     *)
(* rewrite and in-place forms; the edit list (elst), the injections of     *)
(* spherical metadata, camm sample entries and edit lists into a moov, the *)
(* sdtp made from key-frame indices and the atom registry; and, of        *)
(* cpp/sensor_fusion, the stationary detector with its filters, the        *)
(* delayed low-pass filter and the orientation filter with its             *)
(* magnetometer alignment.                                                 *)
(*                                                                         *)
(* Streams are sequences of bytes (0..255).  Multi-byte integers are       *)
(* big-endian, on as many bytes as in the code (4 for a uint32_t, 8 for a  *)
(* uint64_t).  TLC's integers are 32-bit, so the VALUE range of the        *)
(* 32-bit quantities is scaled to Bits32 bits (UINT32_MAX = 2^Bits32 - 1)  *)
(* and that of the 64-bit ones to 2*Bits32 bits; byte layouts are kept.    *)
(*                                                                         *)
(* The result of a call that the code keeps in a local variable is passed  *)
(* as the argument of a local operator (LET Then(x) == ... IN Then(call)), *)
(* so that it is computed once.                                            *)
(***************************************************************************)
EXTENDS Integers, Sequences, FiniteSets, TLC

\* Width, in bits, to which the values of uint32_t are scaled.
Bits32 == 8

UINT32_MAX == 2^Bits32 - 1
UINT64_MOD == 2^(2 * Bits32)
INT32_MAX == 2^(Bits32 - 1) - 1
INT32_MIN == 0 - 2^(Bits32 - 1)

\* ---------------------------------------------------------------- helpers

RECURSIVE SumSeq(_)
SumSeq(s) == IF s = <<>> THEN 0 ELSE Head(s) + SumSeq(Tail(s))

RECURSIVE MaxSeq(_)
MaxSeq(s) ==
  IF Len(s) = 1 THEN s[1]
  ELSE LET m == MaxSeq(Tail(s)) IN IF s[1] > m THEN s[1] ELSE m

RECURSIVE Concat(_)
Concat(ss) == IF ss = <<>> THEN <<>> ELSE Head(ss) \o Concat(Tail(ss))

Zeros(n) == [i \in 1..n |-> 0]

Max(a, b) == IF a > b THEN a ELSE b
Min(a, b) == IF a < b THEN a ELSE b

\* ------------------------------------------------- big-endian integers

\* n bytes, most significant first (absl::ghtonl / ghtonll then write).
RECURSIVE BE(_, _)
BE(v, n) == IF n = 0 THEN <<>> ELSE Append(BE(v \div 256, n - 1), v % 256)

\* The value of a big-endian byte string (read then absl::gntohl / gntohll).
RECURSIVE FromBE(_)
FromBE(s) ==
  IF s = <<>> THEN 0 ELSE FromBE(SubSeq(s, 1, Len(s) - 1)) * 256 + s[Len(s)]

\* ------------------------------------------------------------- reader
\* A BinaryReaderImpl over a stream: data are the stream's bytes, kind is
\* "file" (ifstream / fstream) or "memory" (istringstream), pos is pos_ and
\* fail the stream's failbit, which once set makes every later operation on
\* the stream (and on every clone, which shares it) fail.

BadPos == 0 - 1

NewReader(data, kind) == [data |-> data, kind |-> kind, pos |-> 0, fail |-> FALSE]

\* BinaryReaderImpl::Size: seekg(0, end); tellg().  tellg() is -1 on a failed
\* stream.
ReaderSize(r) == IF r.fail THEN BadPos ELSE Len(r.data)

ReaderTell(r) == r.pos

\* BinaryReaderImpl::Seek: seekg(pos) then UpdatePos.  Seeking past the end
\* succeeds on a file stream and fails on a string stream.
ReaderSeek(r, p) ==
  IF r.fail \/ p < 0 \/ (r.kind = "memory" /\ p > Len(r.data))
    THEN [r |-> [r EXCEPT !.pos = BadPos, !.fail = TRUE], ok |-> FALSE]
    ELSE [r |-> [r EXCEPT !.pos = p], ok |-> TRUE]

\* Seek(pos_), read n bytes, UpdatePos, IsStreamGood: the common body of
\* ReadUInt8/24/32/64 and ReadString.  A short read sets the failbit.
ReadBytes(r, n) ==
  LET Then(s) ==
        IF ~s.ok THEN [r |-> s.r, ok |-> FALSE, v |-> <<>>]
        ELSE IF r.pos + n > Len(r.data)
          THEN [r |-> [r EXCEPT !.pos = BadPos, !.fail = TRUE],
                ok |-> FALSE, v |-> <<>>]
          ELSE [r |-> [r EXCEPT !.pos = r.pos + n], ok |-> TRUE,
                v |-> SubSeq(r.data, r.pos + 1, r.pos + n)]
  IN Then(ReaderSeek(r, r.pos))

ReadUInt(r, n) ==
  LET Then(b) == [r |-> b.r, ok |-> b.ok, v |-> IF b.ok THEN FromBE(b.v) ELSE 0]
  IN Then(ReadBytes(r, n))

ReadUInt8(r)  == ReadUInt(r, 1)
ReadUInt16(r) == ReadUInt(r, 2)
ReadUInt24(r) == ReadUInt(r, 3)
ReadUInt32(r) == ReadUInt(r, 4)
ReadUInt64(r) == ReadUInt(r, 8)
ReadString(r, n) == ReadBytes(r, n)

\* ------------------------------------------------------------- writer
\* A writer's output is the byte string it appends; the values are cut to
\* their width as the C++ parameter types cut them.

PutUInt8(v)  == BE(v % 256, 1)
PutUInt16(v) == BE(v % (2^16), 2)
PutUInt24(v) == BE(v % (2^24), 3)
PutUInt32(v) == BE(v % (UINT32_MAX + 1), 4)
PutUInt64(v) == BE(v % UINT64_MOD, 8)

\* ---------------------------------------------------------- atom types
\* A type tag is the 4 bytes of its ASCII name.

T_moov == <<109, 111, 111, 118>>
T_trak == <<116, 114, 97, 107>>
T_mdia == <<109, 100, 105, 97>>
T_minf == <<109, 105, 110, 102>>
T_stbl == <<115, 116, 98, 108>>
T_stco == <<115, 116, 99, 111>>
T_co64 == <<99, 111, 54, 52>>
T_sdtp == <<115, 100, 116, 112>>
T_mdat == <<109, 100, 97, 116>>
T_free == <<102, 114, 101, 101>>
T_ftyp == <<102, 116, 121, 112>>
T_elst == <<101, 108, 115, 116>>
T_udta == <<117, 100, 116, 97>>
T_hdlr == <<104, 100, 108, 114>>
T_stsd == <<115, 116, 115, 100>>
T_stss == <<115, 116, 115, 115>>
T_tkhd == <<116, 107, 104, 100>>
T_edts == <<101, 100, 116, 115>>
T_st3d == <<115, 116, 51, 100>>
T_sv3d == <<115, 118, 51, 100>>
T_proj == <<112, 114, 111, 106>>
T_uuid == <<117, 117, 105, 100>>
T_avc1 == <<97, 118, 99, 49>>
T_camm == <<99, 97, 109, 109>>
T_mett == <<109, 101, 116, 116>>

\* Component subtypes of hdlr (atom_hdlr.cc).
kVisualSubtype == <<118, 105, 100, 101>>
kSoundSubtype == <<115, 111, 117, 110>>
kMetaSubtype == <<109, 101, 116, 97>>
kMettType == T_mett

\* StereoMode (stereo_mode.h)
MONO == 0
TOP_BOTTOM == 1
LEFT_RIGHT == 2

kMoovType == T_moov
kMdatType == T_mdat
kFreeType == T_free
kType32 == T_stco
kType64 == T_co64

\* Atom::k... (atom.cc) and the table constants of atom_stco.cc, atom_sdtp.cc.
kIndicateSizeIsToEndOfFile == 0
kIndicateSizeIs64 == 1
kSizeOf32bitSize == 4
kSizeOfAtomSize == 8
kAtomTypeSize == 4
kMinSizeofAtomHeader == kSizeOf32bitSize + kAtomTypeSize
kConstSTCOBaseSize == 8
kChunkOffsetSize32 == 4
kChunkOffsetSize64 == 8
kFlagAndVersionSize == 4
kFreeAtomHeaderSize == 8
kNullTerminatorSize == 4
kConstELSTSize == 8
kEntryV0Size == 12
kEntryV1Size == 20
kTypeSize == 4
kHdlrConstSize == 12
kConstSTSDSize == 8
kVisualSampleEntryConstSize == 78
kConstST3DSize == 5
kReservedSize == 6
kTkhdV0Size == 84
kTkhdV1Size == 96
kIFrameDescription == 32
kPFrameDescription == 24

\* ------------------------------------------------------------ registry
\* The REGISTER_ATOM lines of the sources present: tag -> class.  The line
\* of atom_moov.cc registers AtomTRAK under "moov".
RegisteredInSource ==
  { <<T_moov, "AtomTRAK">>, <<T_trak, "AtomTRAK">>,
    <<T_stco, "AtomSTCO">>, <<T_co64, "AtomSTCO">>,
    <<T_sdtp, "AtomSDTP">>, <<T_elst, "AtomELST">>,
    <<T_hdlr, "AtomHDLR">>, <<T_stsd, "AtomSTSD">>, <<T_stss, "AtomSTSS">>,
    <<T_tkhd, "AtomTKHD">>, <<T_st3d, "AtomST3D">>, <<T_camm, "AtomCAMM">>,
    <<T_uuid, "AtomUUID">>, <<T_avc1, "VisualSampleEntry">> }

\* The container atoms whose .cc files are not among the sources.
RegisteredElsewhere ==
  { <<T_mdia, "AtomMDIA">>, <<T_minf, "AtomMINF">>, <<T_stbl, "AtomSTBL">>,
    <<T_edts, "AtomEDTS">>, <<T_sv3d, "AtomSV3D">> }

atom_map == RegisteredInSource \cup RegisteredElsewhere

\* ---------------------------------------------------------------- atoms
\* An atom: type (atom_type_), cls (its C++ class), hs (header_size_),
\* ds (data_size_), kids (children_), nt (has_null_terminator_); of FullAtom
\* ver and flags; tab: chunk_offsets_ (AtomSTCO) or frame_description_
\* (AtomSDTP), entries_ (AtomELST), component_subtype_ (AtomHDLR),
\* <<stereo_mode_>> (AtomST3D), <<duration_>> (AtomTKHD); delta and maxoff:
\* moov_size_delta_ and max_chunk_offset_;
\* pr: AtomDefault's payload_reader_ (has = non-null, pos = its pos_).

NoReader == [has |-> FALSE, pos |-> 0]

\* Atom::size
Size(a) == a.hs + a.ds

\* AtomELST::EntrySize
EntrySize(a) == IF a.ver = 1 THEN kEntryV1Size ELSE kEntryV0Size

\* Atom::GetDataSizeWithoutChildren and its overrides.
GetDataSizeWithoutChildren(a) ==
  CASE a.cls = "AtomDefault" -> a.ds
    [] a.cls = "AtomSTCO" ->
         kConstSTCOBaseSize
         + Len(a.tab) * (IF a.type = kType32 THEN kChunkOffsetSize32
                                             ELSE kChunkOffsetSize64)
    [] a.cls = "AtomSDTP" -> Len(a.tab) + kFlagAndVersionSize
    [] a.cls = "AtomELST" -> kConstELSTSize + Len(a.tab) * EntrySize(a)
    [] a.cls = "AtomHDLR" ->
         \* component_type_ and component_manufacturer_ of kTypeSize bytes
         \* and a component_name_ of one byte, as AtomHDLR() makes them
         kHdlrConstSize + kTypeSize + Len(a.tab) + kTypeSize + 1
    [] a.cls = "AtomSTSD" -> kConstSTSDSize
    [] a.cls = "VisualSampleEntry" -> kVisualSampleEntryConstSize
    [] a.cls = "AtomST3D" -> kConstST3DSize
    [] a.cls = "AtomCAMM" -> kReservedSize + 2
    [] a.cls = "AtomTKHD" -> IF a.ver = 1 THEN kTkhdV1Size ELSE kTkhdV0Size
    [] OTHER -> 0

\* Atom::ComputeHeaderSize
ComputeHeaderSize(a) ==
  LET header_bytes == kSizeOf32bitSize + kAtomTypeSize IN
  [a EXCEPT !.hs = IF header_bytes + a.ds > UINT32_MAX
                     THEN header_bytes + kSizeOfAtomSize
                     ELSE header_bytes]

RECURSIVE SumSizes(_)
SumSizes(kids) ==
  IF kids = <<>> THEN 0 ELSE Size(Head(kids)) + SumSizes(Tail(kids))

\* Atom::UpdateSize
UpdateSize(a) ==
  LET terminator_size == IF a.nt THEN kNullTerminatorSize ELSE 0 IN
  ComputeHeaderSize(
    [a EXCEPT !.ds = GetDataSizeWithoutChildren(a) + SumSizes(a.kids)
                     + terminator_size])

\* Atom::Atom
NewAtom(header_size, data_size, atom_type, cls) ==
  LET a == [type |-> atom_type, cls |-> cls, hs |-> header_size,
            ds |-> data_size, kids |-> <<>>, nt |-> FALSE,
            ver |-> 0, flags |-> 0, tab |-> <<>>, delta |-> 0, maxoff |-> 0,
            pr |-> NoReader]
  IN IF header_size = 0 /\ data_size # 0 THEN ComputeHeaderSize(a) ELSE a

\* AtomRegistry::CreateAtom
CreateAtom(header_size, data_size, atom_type) ==
  IF \E e \in atom_map : e[1] = atom_type
    THEN NewAtom(header_size, data_size, atom_type,
                 (CHOOSE e \in atom_map : e[1] = atom_type)[2])
    ELSE NewAtom(header_size, data_size, atom_type, "AtomDefault")

\* Atom::AddChildAt on an atom that has no parent (yet): the children after
\* index move up by one, then Update().
AddChildAt(a, child, index) ==
  IF index < 0 \/ index > Len(a.kids) THEN a
  ELSE UpdateSize([a EXCEPT !.kids = SubSeq(a.kids, 1, index) \o <<child>>
                                     \o SubSeq(a.kids, index + 1, Len(a.kids))])

\* Atom::AddChild
AddChild(a, child) == AddChildAt(a, child, Len(a.kids))

\* Atom::DeleteChild (the tree it leaves; the child is dropped).
DeleteChild(a, i) ==
  IF i < 0 \/ i >= Len(a.kids) THEN a
  ELSE UpdateSize([a EXCEPT !.kids = SubSeq(a.kids, 1, i)
                                     \o SubSeq(a.kids, i + 2, Len(a.kids))])

\* Atom::set_has_null_terminator
set_has_null_terminator(a, value) ==
  IF a.nt # value THEN UpdateSize([a EXCEPT !.nt = value]) ELSE a

\* FullAtom::set_version (on an atom without a parent)
set_version(a, version) == UpdateSize([a EXCEPT !.ver = version])

\* AtomELST::Entry
Entry(duration, time, rate_integer, rate_fraction) ==
  [segment_duration |-> duration, media_time |-> time,
   media_rate_integer |-> rate_integer, media_rate_fraction |-> rate_fraction]

\* AtomELST::AtomELST(): FullAtom(0, 0, kType) and Update().
NewElst == UpdateSize(NewAtom(0, 0, T_elst, "AtomELST"))

\* AtomELST::AddEntry that leaves the version as it is.
AddEntryKeepVersion(a, entry) ==
  UpdateSize([a EXCEPT !.tab = Append(a.tab, entry)])

\* AtomELST::AddEntry
AddEntry(a, entry) ==
  LET b == IF \/ entry.segment_duration > UINT32_MAX
              \/ entry.media_time > INT32_MAX
              \/ entry.media_time < INT32_MIN
             THEN set_version(a, 1) ELSE a
  IN UpdateSize([b EXCEPT !.tab = Append(b.tab, entry)])

\* AtomELST::ReplaceEntry, for i < NumEntries().
ReplaceEntry(a, i, entry) == [a EXCEPT !.tab[i + 1] = entry]

\* AtomSTCO::ReviewAtomType that never changes the type.
ReviewAtomTypeNever(a) == a

\* AtomSTCO::ReviewAtomType
ReviewAtomType(a) ==
  IF a.maxoff + a.delta > UINT32_MAX
    THEN UpdateSize([a EXCEPT !.type = kType64])
    ELSE a

\* AtomSTCO::AdjustChunkOffsets (on an atom without a parent)
AdjustChunkOffsets(a, adjustment) ==
  UpdateSize(ReviewAtomType([a EXCEPT !.delta = a.delta + adjustment]))

\* ---------------------------------------------------------- atom_reader
\* Every read operator returns the reader as the call left it.

\* FullAtom::ReadVersionAndFlags
ReadVersionAndFlags(a, r) ==
  LET Flags(v, f) ==
        [a |-> [a EXCEPT !.ver = v.v, !.flags = IF f.ok THEN f.v ELSE a.flags],
         r |-> f.r, ok |-> f.ok]
      Version(v) ==
        IF ~v.ok THEN [a |-> a, r |-> v.r, ok |-> FALSE]
        ELSE Flags(v, ReadUInt24(v.r))
  IN Version(ReadUInt8(r))

\* AtomSTCO::CheckNumberOfChunks
CheckNumberOfChunks(a, num) ==
  LET chunk_offset_size == IF a.type = kType32 THEN kChunkOffsetSize32
                                               ELSE kChunkOffsetSize64
  IN a.ds >= kConstSTCOBaseSize + num * chunk_offset_size

\* The loop of AtomSTCO::ReadDataWithoutChildren: n offsets of 4 or 8 bytes.
RECURSIVE ReadOffsets(_, _, _, _)
ReadOffsets(r, n, width, acc) ==
  LET Then(o) ==
        IF ~o.ok THEN [r |-> o.r, ok |-> FALSE, v |-> acc]
        ELSE ReadOffsets(o.r, n - 1, width, Append(acc, o.v))
  IN IF n = 0 THEN [r |-> r, ok |-> TRUE, v |-> acc]
     ELSE Then(ReadUInt(r, width))

\* AtomSTCO::ReadDataWithoutChildren
STCO_ReadData(a, r) ==
  LET Offsets(b, num, os) ==
        IF ~os.ok THEN [a |-> b, r |-> os.r, ok |-> FALSE]
        ELSE [a |-> [b EXCEPT !.tab = os.v,
                              !.maxoff = IF os.v # <<>> THEN MaxSeq(os.v)
                                                        ELSE b.maxoff],
              r |-> os.r, ok |-> TRUE]
      NumChunks(b, num) ==
        IF ~num.ok THEN [a |-> b, r |-> num.r, ok |-> FALSE]
        ELSE IF ~CheckNumberOfChunks(b, num.v)
          THEN [a |-> b, r |-> num.r, ok |-> FALSE]
        ELSE Offsets(b, num,
                     ReadOffsets(num.r, num.v,
                                 IF a.type = kType32 THEN 4 ELSE 8, <<>>))
      Then(vf) == IF ~vf.ok THEN vf ELSE NumChunks(vf.a, ReadUInt32(vf.r))
  IN Then(ReadVersionAndFlags(a, r))

\* AtomSDTP::ReadDataWithoutChildren: one byte per sample after the version
\* and flags.  With data_size < 4 the unsigned loop bound wraps and the
\* loop reads to the end of the stream, where it fails.
SDTP_ReadData(a, r) ==
  LET Flags(vf, b) ==
        [a |-> IF b.ok THEN [vf.a EXCEPT !.tab = b.v] ELSE vf.a,
         r |-> b.r, ok |-> b.ok]
      Then(vf) ==
        IF ~vf.ok THEN vf
        ELSE IF a.ds < kFlagAndVersionSize
          THEN [a |-> vf.a, ok |-> FALSE,
                r |-> [vf.r EXCEPT !.pos = BadPos, !.fail = TRUE]]
        ELSE Flags(vf, ReadBytes(vf.r, a.ds - kFlagAndVersionSize))
  IN Then(ReadVersionAndFlags(a, r))

\* static_cast of an unsigned value to the signed type of the same width.
ToSigned(v, modulus) == IF v >= modulus \div 2 THEN v - modulus ELSE v

\* AtomELST::CheckNumEntries
CheckNumEntries(a, num) == a.ds >= kConstELSTSize + num * EntrySize(a)

\* The loop of AtomELST::ReadDataWithoutChildren.
RECURSIVE ReadEntries(_, _, _, _)
ReadEntries(r, n, version, acc) ==
  LET Fraction(d, t, ri, rf) ==
        IF ~rf.ok THEN [r |-> rf.r, ok |-> FALSE, v |-> acc]
        ELSE ReadEntries(
               rf.r, n - 1, version,
               Append(acc,
                      Entry(d.v,
                            IF version = 1 THEN ToSigned(t.v, UINT64_MOD)
                                           ELSE t.v,
                            ToSigned(ri.v, 2^16), ToSigned(rf.v, 2^16))))
      Rate(d, t, ri) ==
        IF ~ri.ok THEN [r |-> ri.r, ok |-> FALSE, v |-> acc]
        ELSE Fraction(d, t, ri, ReadUInt16(ri.r))
      Time(d, t) ==
        IF ~t.ok THEN [r |-> t.r, ok |-> FALSE, v |-> acc]
        ELSE Rate(d, t, ReadUInt16(t.r))
      Duration(d) ==
        IF ~d.ok THEN [r |-> d.r, ok |-> FALSE, v |-> acc]
        ELSE Time(d, ReadUInt(d.r, IF version = 1 THEN 8 ELSE 4))
  IN IF n = 0 THEN [r |-> r, ok |-> TRUE, v |-> acc]
     ELSE Duration(ReadUInt(r, IF version = 1 THEN 8 ELSE 4))

\* AtomELST::ReadDataWithoutChildren
ELST_ReadData(a, r) ==
  LET Entries(b, es) ==
        [a |-> [b EXCEPT !.tab = b.tab \o es.v], r |-> es.r, ok |-> es.ok]
      Count(b, count) ==
        IF ~count.ok \/ ~CheckNumEntries(b, count.v)
          THEN [a |-> b, r |-> count.r, ok |-> FALSE]
        ELSE Entries(b, ReadEntries(count.r, count.v, b.ver, <<>>))
      Then(vf) == IF ~vf.ok THEN vf ELSE Count(vf.a, ReadUInt32(vf.r))
  IN Then(ReadVersionAndFlags(a, r))

\* AtomDefault::ReadDataWithoutChildren: keep a clone of the reader at the
\* payload and seek over the payload.
Default_ReadData(a, r) ==
  LET Then(s) ==
        [a |-> [a EXCEPT !.pr = [has |-> TRUE, pos |-> r.pos]],
         r |-> s.r, ok |-> s.ok]
  IN Then(ReaderSeek(r, ReaderTell(r) + a.ds))

\* Atom::ReadDataWithoutChildren, dispatched on the class.
ReadDataWithoutChildren(a, r) ==
  CASE a.cls = "AtomDefault" -> Default_ReadData(a, r)
    [] a.cls = "AtomSTCO" -> STCO_ReadData(a, r)
    [] a.cls = "AtomSDTP" -> SDTP_ReadData(a, r)
    [] a.cls = "AtomELST" -> ELST_ReadData(a, r)
    [] OTHER -> [a |-> a, r |-> r, ok |-> TRUE]

\* ReadHeader without its check of the declared size against the header size.
ReadHeaderNoSizeCheck(r) ==
  LET short == kSizeOf32bitSize + kAtomTypeSize
      Size64(s32, ty, s64) ==
        LET header_bytes == IF s32.v = kIndicateSizeIs64
                              THEN short + kSizeOfAtomSize ELSE short
        IN IF ~s64.ok
             THEN [r |-> s64.r, ok |-> FALSE, hs |-> 0, ds |-> 0, type |-> ty.v]
             ELSE [r |-> s64.r, ok |-> TRUE, hs |-> header_bytes,
                   ds |-> s64.v - header_bytes, type |-> ty.v]
      Type(s32, ty) ==
        IF ~ty.ok
          THEN [r |-> ty.r, ok |-> FALSE, hs |-> 0, ds |-> 0, type |-> <<>>]
        ELSE Size64(s32, ty,
               IF s32.v = kIndicateSizeIs64 THEN ReadUInt64(ty.r)
               ELSE [r |-> ty.r, ok |-> TRUE,
                     v |-> IF s32.v = kIndicateSizeIsToEndOfFile
                             THEN ReaderSize(ty.r) - ReaderTell(ty.r) + short
                             ELSE s32.v])
      Size32(s32) ==
        IF ~s32.ok
          THEN [r |-> s32.r, ok |-> FALSE, hs |-> 0, ds |-> 0, type |-> <<>>]
        ELSE Type(s32, ReadString(s32.r, kAtomTypeSize))
  IN Size32(ReadUInt32(r))

\* ReadHeader (atom_reader.cc)
ReadHeader(r) ==
  LET short == kSizeOf32bitSize + kAtomTypeSize
      Size64(s32, ty, s64) ==
        LET header_bytes == IF s32.v = kIndicateSizeIs64
                              THEN short + kSizeOfAtomSize ELSE short
        IN IF ~s64.ok \/ s64.v < header_bytes
             THEN [r |-> s64.r, ok |-> FALSE, hs |-> 0, ds |-> 0, type |-> ty.v]
             ELSE [r |-> s64.r, ok |-> TRUE, hs |-> header_bytes,
                   ds |-> s64.v - header_bytes, type |-> ty.v]
      Type(s32, ty) ==
        IF ~ty.ok
          THEN [r |-> ty.r, ok |-> FALSE, hs |-> 0, ds |-> 0, type |-> <<>>]
        ELSE Size64(s32, ty,
               IF s32.v = kIndicateSizeIs64 THEN ReadUInt64(ty.r)
               ELSE [r |-> ty.r, ok |-> TRUE,
                     v |-> IF s32.v = kIndicateSizeIsToEndOfFile
                             THEN ReaderSize(ty.r) - ReaderTell(ty.r) + short
                             ELSE s32.v])
      Size32(s32) ==
        IF ~s32.ok
          THEN [r |-> s32.r, ok |-> FALSE, hs |-> 0, ds |-> 0, type |-> <<>>]
        ELSE Type(s32, ReadString(s32.r, kAtomTypeSize))
  IN Size32(ReadUInt32(r))

NullAtom == NewAtom(0, 0, <<>>, "null")

RECURSIVE ReadAtom(_), ReadChildLoop(_, _, _, _)

\* The loop of ReadChildAtoms: ok is its return value.
ReadChildLoop(r, parent, sum_sizes, children_size) ==
  LET Child(c) ==
        IF ~c.ok THEN [a |-> parent, r |-> c.r, ok |-> FALSE]
        ELSE ReadChildLoop(c.r, AddChild(parent, c.atom),
                           sum_sizes + Size(c.atom), children_size)
  IN IF sum_sizes + kMinSizeofAtomHeader <= children_size
       THEN Child(ReadAtom(r))
       ELSE [a |-> parent, r |-> r, ok |-> TRUE]

\* safe_sub (atom_reader.cc)
safe_sub(a, b) == IF a > b THEN a - b ELSE 0

\* ReadChildAtoms (atom_reader.cc)
ReadChildAtoms(r, parent) ==
  ReadChildLoop(r, parent, 0,
                safe_sub(parent.ds, GetDataSizeWithoutChildren(parent)))

\* ReadAtom (atom_reader.cc): ok = a non-null result, atom the result.
ReadAtom(r) ==
  LET initial_pos == ReaderTell(r)
      Check(expected_pos, a2, r2) ==
        IF ReaderTell(r2) # expected_pos
          THEN [ok |-> FALSE, atom |-> NullAtom, r |-> r2]
          ELSE [ok |-> TRUE, atom |-> a2, r |-> r2]
      Children(atom_size, c) ==
        IF ~c.ok THEN [ok |-> FALSE, atom |-> NullAtom, r |-> c.r]
        ELSE IF atom_size - ReaderTell(c.r) + initial_pos = kNullTerminatorSize
          THEN Check(initial_pos + atom_size,
                     set_has_null_terminator(c.a, TRUE), ReadUInt32(c.r).r)
          ELSE Check(initial_pos + atom_size, c.a, c.r)
      Data(atom_size, d) ==
        IF ~d.ok THEN [ok |-> FALSE, atom |-> NullAtom, r |-> d.r]
        ELSE Children(atom_size, ReadChildAtoms(d.r, d.a))
      Header(h) ==
        IF ~h.ok THEN [ok |-> FALSE, atom |-> NullAtom, r |-> h.r]
        ELSE Data(h.hs + h.ds,
                  ReadDataWithoutChildren(CreateAtom(h.hs, h.ds, h.type), h.r))
  IN Header(ReadHeader(r))

\* ReadAtoms (modify_moov.cc).  broke records how the loop ended: by the
\* break at a null atom, or by reaching the end of the input.
RECURSIVE ReadAtomsLoop(_, _)
ReadAtomsLoop(r, atoms) ==
  LET Then(top_level_atom) ==
        IF ~top_level_atom.ok
          THEN [atoms |-> atoms, r |-> top_level_atom.r, broke |-> TRUE]
        ELSE ReadAtomsLoop(top_level_atom.r, Append(atoms, top_level_atom.atom))
  IN IF ReaderTell(r) < ReaderSize(r)
       THEN Then(ReadAtom(r))
       ELSE [atoms |-> atoms, r |-> r, broke |-> FALSE]

ReadAtoms(r) == ReadAtomsLoop(r, <<>>)

\* ---------------------------------------------------------- atom_writer
\* Every write operator returns ok (the FormatStatus) and out, the bytes it
\* put on the writer before it returned.  src is the stream the default
\* atoms were read from: their payload readers are clones of its reader.

\* FullAtom::VersionAndFlags
VersionAndFlags(a) == PutUInt8(a.ver) \o PutUInt24(a.flags)

\* AtomSTCO::WriteDataWithoutChildren
STCO_WriteData(a) ==
  VersionAndFlags(a) \o PutUInt32(Len(a.tab))
  \o Concat([i \in 1..Len(a.tab) |->
               IF a.type = kType32 THEN PutUInt32(a.tab[i] + a.delta)
                                   ELSE PutUInt64(a.tab[i] + a.delta)])

\* AtomSDTP::WriteDataWithoutChildren
SDTP_WriteData(a) ==
  VersionAndFlags(a) \o Concat([i \in 1..Len(a.tab) |-> PutUInt8(a.tab[i])])

\* AtomELST::WriteDataWithoutChildren
ELST_WriteData(a) ==
  VersionAndFlags(a) \o PutUInt32(Len(a.tab))
  \o Concat([i \in 1..Len(a.tab) |->
               (IF a.ver = 1
                  THEN PutUInt64(a.tab[i].segment_duration)
                       \o PutUInt64(a.tab[i].media_time)
                  ELSE PutUInt32(a.tab[i].segment_duration)
                       \o PutUInt32(a.tab[i].media_time))
               \o PutUInt16(a.tab[i].media_rate_integer)
               \o PutUInt16(a.tab[i].media_rate_fraction)])

\* AtomDefault::WriteDataWithoutChildren with BinaryWriterImpl::PutData: the
\* payload reader reads data_size() bytes of the source stream.
Default_WriteData(a, src) ==
  LET Then(b) == [ok |-> b.ok, out |-> b.v] IN
  IF ~a.pr.has \/ a.ds = 0 THEN [ok |-> TRUE, out |-> <<>>]
  ELSE Then(ReadString([src EXCEPT !.pos = a.pr.pos], a.ds))

\* Atom::WriteDataWithoutChildren, dispatched on the class.
WriteDataWithoutChildren(a, src) ==
  CASE a.cls = "AtomDefault" -> Default_WriteData(a, src)
    [] a.cls = "AtomSTCO" -> [ok |-> TRUE, out |-> STCO_WriteData(a)]
    [] a.cls = "AtomSDTP" -> [ok |-> TRUE, out |-> SDTP_WriteData(a)]
    [] a.cls = "AtomELST" -> [ok |-> TRUE, out |-> ELST_WriteData(a)]
    [] OTHER -> [ok |-> TRUE, out |-> <<>>]

\* WriteAtomHeader (atom_writer.cc)
WriteAtomHeader(a) ==
  LET size_length == a.hs - kAtomTypeSize IN
  IF size_length = kSizeOf32bitSize
    THEN [ok |-> TRUE, out |-> PutUInt32(Size(a)) \o a.type]
  ELSE IF size_length = kSizeOf32bitSize + kSizeOfAtomSize
    THEN [ok |-> TRUE,
          out |-> PutUInt32(kIndicateSizeIs64) \o a.type \o PutUInt64(Size(a))]
  ELSE [ok |-> FALSE, out |-> <<>>]

RECURSIVE WriteAtom(_, _), WriteChildAtoms(_, _, _)

\* WriteChildAtoms (atom_writer.cc), from child i on.
WriteChildAtoms(a, i, src) ==
  LET Rest(w, rest) == [ok |-> rest.ok, out |-> w.out \o rest.out]
      Child(w) == IF ~w.ok THEN w ELSE Rest(w, WriteChildAtoms(a, i + 1, src))
  IN IF i > Len(a.kids) THEN [ok |-> TRUE, out |-> <<>>]
     ELSE Child(WriteAtom(a.kids[i], src))

\* WriteAtom (atom_writer.cc)
WriteAtom(a, src) ==
  LET Children(h, d, c) ==
        IF ~c.ok THEN [ok |-> FALSE, out |-> h.out \o d.out \o c.out]
        ELSE [ok |-> TRUE,
              out |-> h.out \o d.out \o c.out
                      \o (IF a.nt THEN PutUInt32(0) ELSE <<>>)]
      Data(h, d) ==
        IF ~d.ok THEN [ok |-> FALSE, out |-> h.out \o d.out]
        ELSE Children(h, d, WriteChildAtoms(a, 1, src))
      Header(h) ==
        IF ~h.ok THEN h ELSE Data(h, WriteDataWithoutChildren(a, src))
  IN Header(WriteAtomHeader(a))

\* What a call of WriteAtom leaves behind.  BinaryWriterImpl::PutData takes
\* the bytes with ReadString on the payload reader of the AtomDefault:
\* ReadString ends with UpdatePos, so the reader is left after the bytes it
\* read, and a short read leaves the failbit set on the stream that the
\* readers share.  The atoms of the other classes write their fields.
DefaultWriteEffect(a, src) ==
  LET Then(b) ==
        [a |-> [a EXCEPT !.pr.pos = b.r.pos],
         src |-> [src EXCEPT !.fail = b.r.fail], ok |-> b.ok]
  IN IF a.cls # "AtomDefault" \/ ~a.pr.has \/ a.ds = 0
       THEN [a |-> a, src |-> src, ok |-> TRUE]
       ELSE Then(ReadString([src EXCEPT !.pos = a.pr.pos], a.ds))

RECURSIVE WriteAtomEffect(_, _), WriteChildAtomsEffect(_, _)

\* The children and the stream after WriteChildAtoms, which stops at the
\* first child that fails.
WriteChildAtomsEffect(kids, src) ==
  LET Rest(w, rest) ==
        [kids |-> <<w.a>> \o rest.kids, src |-> rest.src, ok |-> rest.ok]
      Then(w) ==
        IF ~w.ok
          THEN [kids |-> <<w.a>> \o Tail(kids), src |-> w.src, ok |-> FALSE]
          ELSE Rest(w, WriteChildAtomsEffect(Tail(kids), w.src))
  IN IF kids = <<>> THEN [kids |-> <<>>, src |-> src, ok |-> TRUE]
     ELSE Then(WriteAtomEffect(Head(kids), src))

\* The atom and the stream after WriteAtom (atom_writer.cc).
WriteAtomEffect(a, src) ==
  LET Children(d, c) ==
        [a |-> [d.a EXCEPT !.kids = c.kids], src |-> c.src, ok |-> c.ok]
      Data(d) ==
        IF ~d.ok THEN d ELSE Children(d, WriteChildAtomsEffect(a.kids, d.src))
  IN IF ~WriteAtomHeader(a).ok THEN [a |-> a, src |-> src, ok |-> FALSE]
     ELSE Data(DefaultWriteEffect(a, src))

\* The loops "for each atom: WriteAtom" of ModifyMoov and WriteAtomsInPlace.
RECURSIVE WriteAtomList(_, _)
WriteAtomList(atoms, src) ==
  LET Rest(w, rest) == [ok |-> rest.ok, out |-> w.out \o rest.out]
      Then(w) == IF ~w.ok THEN w ELSE Rest(w, WriteAtomList(Tail(atoms), src))
  IN IF atoms = <<>> THEN [ok |-> TRUE, out |-> <<>>]
     ELSE Then(WriteAtom(Head(atoms), src))

\* ----------------------------------------------------------- tree paths

\* The atom at a path of child indices (1-based) below a.
RECURSIVE AtomAt(_, _)
AtomAt(a, path) ==
  IF path = <<>> THEN a ELSE AtomAt(a.kids[Head(path)], Tail(path))

\* One mutating call on the atom itself; changed tells whether the call
\* reached Update().
TreeMutate(a, op) ==
  CASE op.kind = "AddChild" ->
         [a |-> AddChild(a, op.child), changed |-> TRUE]
    [] op.kind = "AddChildAt" ->
         [a |-> AddChildAt(a, op.child, op.index),
          changed |-> op.index >= 0 /\ op.index <= Len(a.kids)]
    [] op.kind = "DeleteChild" ->
         [a |-> DeleteChild(a, op.index),
          changed |-> op.index >= 0 /\ op.index < Len(a.kids)]
    [] op.kind = "set_has_null_terminator" ->
         [a |-> set_has_null_terminator(a, op.value),
          changed |-> a.nt # op.value]
    [] op.kind = "AdjustChunkOffsets" ->
         [a |-> AdjustChunkOffsets(a, op.adjustment), changed |-> TRUE]

\* Atom::Update: the call on the atom at path, and when it updates itself,
\* UpdateSize of its parent, and of the parent's parent, up to the root.
RECURSIVE Update(_, _, _)
Update(root, path, op) ==
  LET Parent(sub) ==
        IF sub.changed
          THEN [a |-> UpdateSize([root EXCEPT !.kids[Head(path)] = sub.a]),
                changed |-> TRUE]
          ELSE [a |-> root, changed |-> FALSE]
  IN IF path = <<>> THEN TreeMutate(root, op)
     ELSE Parent(Update(root.kids[Head(path)], Tail(path), op))

\* FindChild<ATOM> (atom_helpers.h): the 1-based index of the first child
\* of the class, 0 for nullptr.
FindChild(parent, cls) ==
  IF \E i \in 1..Len(parent.kids) : parent.kids[i].cls = cls
    THEN CHOOSE i \in 1..Len(parent.kids) :
           /\ parent.kids[i].cls = cls
           /\ \A j \in 1..(i - 1) : parent.kids[j].cls # cls
    ELSE 0

\* AtomMOOV::tracks: the indices of the children of class AtomTRAK, in order.
RECURSIVE TracksFrom(_, _)
TracksFrom(moov, i) ==
  IF i > Len(moov.kids) THEN <<>>
  ELSE (IF moov.kids[i].cls = "AtomTRAK" THEN <<i>> ELSE <<>>)
       \o TracksFrom(moov, i + 1)

tracks(moov) == TracksFrom(moov, 1)

\* AtomTRAK::FindNamedChildren reaches its assignment of stbl_ only in a
\* trak that has an mdia with a minf; stbl_ is not initialized otherwise.
HasMinf(trak) ==
  /\ FindChild(trak, "AtomMDIA") # 0
  /\ FindChild(trak.kids[FindChild(trak, "AtomMDIA")], "AtomMINF") # 0

\* AtomTRAK::atom_stbl of a trak with an mdia and a minf: the path from the
\* trak to its stbl, <<>> for nullptr.
atom_stbl(trak) ==
  LET m == FindChild(trak, "AtomMDIA")
      n == FindChild(trak.kids[m], "AtomMINF")
      st == FindChild(trak.kids[m].kids[n], "AtomSTBL")
  IN IF st = 0 THEN <<>> ELSE <<m, n, st>>

\* ------------------------------------------------------------ modify_moov

\* The loop of AdjustTrackOffsets over the tracks ts of moov.
RECURSIVE AdjustTracks(_, _, _)
AdjustTracks(moov, ts, delta) ==
  LET Stco(path, stco) ==
        IF stco = 0 THEN [ok |-> FALSE, a |-> moov]
        ELSE AdjustTracks(
               Update(moov, path \o <<stco>>,
                      [kind |-> "AdjustChunkOffsets", adjustment |-> delta]).a,
               Tail(ts), delta)
      Stbl(t, stbl) ==
        IF stbl = <<>> THEN [ok |-> FALSE, a |-> moov]
        ELSE Stco(<<t>> \o stbl,
                  FindChild(AtomAt(moov, <<t>> \o stbl), "AtomSTCO"))
  IN IF ts = <<>> THEN [ok |-> TRUE, a |-> moov]
     ELSE Stbl(Head(ts), atom_stbl(moov.kids[Head(ts)]))

\* AdjustTrackOffsets (modify_moov.cc)
AdjustTrackOffsets(moov, delta) == AdjustTracks(moov, tracks(moov), delta)

\* GetAtomIndex (modify_moov.cc): 0-based, -1 when there is none.
GetAtomIndex(top_level_atoms, type) ==
  IF \E i \in 1..Len(top_level_atoms) : top_level_atoms[i].type = type
    THEN (CHOOSE i \in 1..Len(top_level_atoms) :
            /\ top_level_atoms[i].type = type
            /\ \A j \in 1..(i - 1) : top_level_atoms[j].type # type) - 1
    ELSE 0 - 1

\* GetAtomPosition that takes every atom to be at the start of the file.
GetAtomPositionZero(top_level_atoms, type) == 0

\* GetAtomPosition (modify_moov.cc): the sizes of the atoms before the
\* first one of the type, of all atoms if there is none.
RECURSIVE GetAtomPosition(_, _)
GetAtomPosition(top_level_atoms, type) ==
  IF top_level_atoms = <<>> \/ Head(top_level_atoms).type = type THEN 0
  ELSE Size(Head(top_level_atoms)) + GetAtomPosition(Tail(top_level_atoms), type)

\* The test of ModifyMoov and ModifyMoovInPlace for "Invalid video file",
\* and the same test without its mdat half.
InvalidVideoFileMoovOnly(moov_index, mdat_index) == moov_index = 0 - 1

InvalidVideoFile(moov_index, mdat_index) ==
  moov_index = 0 - 1 \/ mdat_index = 0 - 1

\* The swap left out.
SwapAtomsNot(atoms, i, j) == atoms

\* std::swap(top_level_atoms[i], top_level_atoms[j]), 0-based.
SwapAtoms(atoms, i, j) ==
  [k \in 1..Len(atoms) |->
     IF k = i + 1 THEN atoms[j + 1] ELSE IF k = j + 1 THEN atoms[i + 1]
     ELSE atoms[k]]

\* WriteFreeSpace that gives every free atom the size of its header.
WriteFreeSpaceOfHeader(size) == PutUInt32(kFreeAtomHeaderSize) \o kFreeType

\* WriteFreeSpace (modify_moov.cc)
WriteFreeSpace(size) == PutUInt32(size) \o kFreeType

\* WriteAtomsInPlace (modify_moov.cc): abort is the CHECK_NE on mdat; writes
\* are the byte strings put on the output, each with its position.
WriteAtomsInPlace(input_atoms, input_start, input_end, output_position, src) ==
  LET Output(w) ==
        [ok |-> w.ok, abort |-> FALSE,
         writes |-> <<[pos |-> output_position, bytes |-> w.out]>>]
      Reread(memory_atoms) ==
        IF Len(memory_atoms.atoms) # input_end - input_start
          THEN [ok |-> FALSE, abort |-> FALSE, writes |-> <<>>]
          ELSE Output(WriteAtomList(memory_atoms.atoms, memory_atoms.r))
      Memory(memory_output) ==
        IF ~memory_output.ok
          THEN [ok |-> FALSE, abort |-> FALSE, writes |-> <<>>]
          ELSE Reread(ReadAtoms(NewReader(memory_output.out, "memory")))
      Range(range) ==
        IF \E i \in 1..Len(range) : range[i].type = kMdatType
          THEN [ok |-> FALSE, abort |-> TRUE, writes |-> <<>>]
          ELSE Memory(WriteAtomList(range, src))
  IN Range(SubSeq(input_atoms, input_start + 1, input_end))

\* ------------------------------------------------------ input byte strings
\* The byte strings the specifications feed to the program, built directly
\* from the ISO-BMFF layout (not with the program's writer).

Hdr32(size, type) == BE(size, 4) \o type
Hdr64(size, type) == BE(1, 4) \o type \o BE(size, 8)
Box(type, payload) == Hdr32(8 + Len(payload), type) \o payload
Box64(type, payload) == Hdr64(16 + Len(payload), type) \o payload
BoxToEnd(type, payload) == BE(0, 4) \o type \o payload

StcoBox(offs) ==
  Box(T_stco, <<0, 0, 0, 0>> \o BE(Len(offs), 4)
              \o Concat([i \in 1..Len(offs) |-> BE(offs[i], 4)]))
Co64Box(offs) ==
  Box(T_co64, <<0, 0, 0, 0>> \o BE(Len(offs), 4)
              \o Concat([i \in 1..Len(offs) |-> BE(offs[i], 8)]))
SdtpBox(flags) == Box(T_sdtp, <<0, 0, 0, 0>> \o flags)

\* Longest list of children of a generated container.
MaxKids == 2

RTLeaves ==
  { Box(T_free, <<>>), Box(T_udta, <<7, 8, 9>>), Box64(T_free, <<5>>),
    StcoBox(<<3, 250>>), Co64Box(<<300>>), SdtpBox(<<32, 24>>),
    Box(T_trak, <<>>) }

RTKidLists == UNION { [1..n -> RTLeaves] : n \in 0..MaxKids }

\* Containers whose headers state their size, in the 32- or the 64-bit form,
\* and whose terminator, if any, is zero.
RTWrapExplicit(kids) ==
  LET body == Concat(kids) IN
  { Box(T_moov, body), Box64(T_moov, body),
    Box(T_trak, body \o <<0, 0, 0, 0>>),
    Box(T_moov, Box(T_trak, body)), Box(T_moov, Box64(T_trak, body)),
    Box(T_udta, body) }

\* The same, and a size "to the end of the file" and four trailing bytes
\* that are not zero.
RTWrap(kids) ==
  LET body == Concat(kids) IN
  RTWrapExplicit(kids)
  \cup { BoxToEnd(T_moov, body), Box(T_trak, body \o <<0, 0, 0, 9>>) }

RTWellFormed == UNION { RTWrapExplicit(kids) : kids \in RTKidLists } \cup RTLeaves

\* A well-formed string, or one cut short, or one whose declared size is
\* changed, or one followed by other bytes.
RTDamage(s) ==
  { s, SubSeq(s, 1, Len(s) - 1), SubSeq(s, 1, Len(s) - 4),
    BE(FromBE(SubSeq(s, 1, 4)) + 2, 4) \o SubSeq(s, 5, Len(s)),
    BE(4, 4) \o SubSeq(s, 5, Len(s)),
    s \o <<1, 2, 3>> }

RTInputs ==
  UNION { UNION { RTDamage(s) : s \in RTWrap(kids) } : kids \in RTKidLists }
  \cup RTLeaves

StreamKinds == {"file", "memory"}

\* --------------------------------------------------- stationary detector
\* Times are in tenths of a second, accelerations and angular rates in units
\* of 10^-4.  The IIR arithmetic of the filters is on doubles; of a filter
\* the model keeps what the detector reads of it: the flags, the run time
\* and the norm (the value, for the bias filter) of filtered_data_, which
\* AddSampleData receives as the argument filtered and the caller draws from
\* a small set, so that every sequence of filter outputs of the code is one
\* of the model.

\* StationaryDetectorConfiguration (stationary_detector.h)
gyro_norm_threshold_rad_per_sec == 1500
accel_high_pass_threshold == 1500
gyro_high_pass_threshold == 200
accel_low_pass_threshold == 25
gyro_low_pass_threshold == 10
max_stationary_gyro_bias_correction == 15
no_exit_condition_stable_secs == 100
init_no_exit_condition_stable_secs == 10
convergence_condition_stable_secs == 1
gyro_correction_delay_secs == 10
initialization_period == 70
init_bias_correction_gain_multiplier == 10

\* 1 / cutoff_frequency of the accel and gyro low-pass filters (1.0 Hz), and
\* of the bias filter at initialization (0.5 Hz) and afterwards (0.05 Hz).
kLowPassStartup == 10
kInitBiasStartup == 20
kBiasStartup == 200

\* stationary_bias_correction_gain of the configuration under test (with the
\* default, 0, every correction is zero).
stationary_bias_correction_gain == 3

Zero3 == <<0, 0, 0>>
Minus3(a, b) == [i \in 1..3 |-> a[i] - b[i]]
Times3(a, k) == [i \in 1..3 |-> a[i] * k]
NormSq(a) == a[1] * a[1] + a[2] * a[2] + a[3] * a[3]

\* LowPassFilter (low_pass_filter.h): init = is_initialized_, run =
\* run_time_s_, startup = startup_time_s_, v = filtered_data_ or its norm.
NewLowPass(startup, zero) ==
  [init |-> FALSE, run |-> 0, startup |-> startup, v |-> zero]

\* LowPassFilter::AddSampleData
LowPass_AddSampleData(f, filtered, delta_t) ==
  IF ~f.init THEN [f EXCEPT !.init = TRUE, !.v = filtered]
  ELSE [f EXCEPT !.run = @ + delta_t, !.v = filtered]

\* LowPassFilter::HasSettled
HasSettled(f) == f.init /\ f.run > f.startup

\* LowPassFilter::Reset and SetCutoffFrequency
LowPass_Reset(f, zero) == [f EXCEPT !.init = FALSE, !.run = 0, !.v = zero]

\* HighPassFilter (high_pass_filter.h): last_set, whether last_data_ has
\* been given a sample (the first sample is not kept in it).
NewHighPass == [init |-> FALSE, last_set |-> FALSE, v |-> 0]
HighPass_AddSampleData(f, filtered) ==
  [init |-> TRUE, last_set |-> f.init, v |-> filtered]

\* DelayedLowPassFilter (delayed_low_pass_filter.h): acc =
\* buffer_accumulated_time_s_, buf = delay_buffer_, a queue of Sample(value,
\* delta_time_s), lp = low_pass_filter_.  The value of a sample stands for
\* the filtered data the low-pass filter has once it is given the sample
\* (the sample itself for the first one and on a constant stream).
NewDelayed(startup) ==
  [acc |-> 0, buf |-> <<>>, lp |-> NewLowPass(startup, Zero3)]

Sample(value, delta_time_s) ==
  [value |-> value, delta_time_s |-> delta_time_s]

\* DelayedLowPassFilter::AddSampleData that forwards a sample once those
\* added after it span the delay.
Delayed_AddSampleDataAfterDelay(d, value, delta_time_s, delay_time_s) ==
  LET Push(e) == [e EXCEPT !.acc = @ + delta_time_s,
                           !.buf = Append(@, Sample(value, delta_time_s))]
  IN IF d.buf # <<>> /\ d.acc - Head(d.buf).delta_time_s >= delay_time_s
       THEN Push([acc |-> d.acc - Head(d.buf).delta_time_s,
                  buf |-> Tail(d.buf),
                  lp |-> LowPass_AddSampleData(d.lp, Head(d.buf).value,
                                               Head(d.buf).delta_time_s)])
       ELSE Push(d)

\* DelayedLowPassFilter::AddSampleData of a filter with delay delay_time_s.
Delayed_AddSampleDataOf(d, value, delta_time_s, delay_time_s) ==
  LET Push(e) == [e EXCEPT !.acc = @ + delta_time_s,
                           !.buf = Append(@, Sample(value, delta_time_s))]
  IN IF d.acc >= delay_time_s
       THEN Push([acc |-> d.acc - Head(d.buf).delta_time_s,
                  buf |-> Tail(d.buf),
                  lp |-> LowPass_AddSampleData(d.lp, Head(d.buf).value,
                                               Head(d.buf).delta_time_s)])
       ELSE Push(d)

\* The bias filter of the detector (delay gyro_correction_delay_secs).
Delayed_AddSampleData(d, value, delta_time_s) ==
  Delayed_AddSampleDataOf(d, value, delta_time_s, gyro_correction_delay_secs)

\* DelayedLowPassFilter::GetFilteredData: its return value.
Delayed_GetFilteredData(d, delay_time_s) ==
  ~(d.acc < delay_time_s \/ ~HasSettled(d.lp))

BiasIsAvailable(d) == Delayed_GetFilteredData(d, gyro_correction_delay_secs)

\* DelayedLowPassFilter::Reset
Delayed_Reset(d) ==
  [acc |-> 0, buf |-> <<>>, lp |-> LowPass_Reset(d.lp, Zero3)]

\* DelayedLowPassFilter::SetCutoffFrequency
Delayed_SetCutoffFrequency(d, startup) ==
  [Delayed_Reset(d) EXCEPT !.lp.startup = startup]

\* ConditionTester
NewTester == [n_static |-> 0, static_start_timestamp_s |-> 0]

\* ConditionTester::IsStable that asks for no dwell.
IsStableAtOnce(tester, condition, timestamp_s, number_of_secs) ==
  [tester |-> tester, stable |-> condition]

\* ConditionTester::IsStable: the tester after the call and the value
\* returned.
IsStable(tester, condition, timestamp_s, number_of_secs) ==
  LET Then(t) ==
        [tester |-> t,
         stable |-> (timestamp_s - t.static_start_timestamp_s)
                      > number_of_secs]
  IN IF condition
       THEN Then([n_static |-> tester.n_static + 1,
                  static_start_timestamp_s |->
                    IF tester.n_static + 1 = 1 THEN timestamp_s
                    ELSE tester.static_start_timestamp_s])
       ELSE [tester |-> NewTester, stable |-> FALSE]

\* StationaryDetector::StationaryDetector.  last_gyro_sample_ is kept by
\* its norm.
NewDetector ==
  [accel_low_pass_filter |-> NewLowPass(kLowPassStartup, 0),
   gyro_low_pass_filter |-> NewLowPass(kLowPassStartup, 0),
   accel_high_pass_filter |-> NewHighPass,
   gyro_high_pass_filter |-> NewHighPass,
   gyro_bias_delayed_low_pass_filter |-> NewDelayed(kInitBiasStartup),
   is_last_accel_initialized |-> FALSE, is_last_gyro_initialized |-> FALSE,
   is_stationary |-> FALSE, is_max_correction_threshold_crossed |-> FALSE,
   last_gyro_sample |-> 0, last_gyro_timestamp |-> 0,
   first_gyro_timestamp |-> 0, last_accel_timestamp |-> 0,
   has_gyro_bias_correction_converged |-> FALSE,
   exit_condition_tester |-> NewTester,
   convergence_condition_tester |-> NewTester]

\* StationaryDetector::IsInitializing without an initialization period.
IsInitializingNever(d) == FALSE

\* StationaryDetector::IsInitializing
IsInitializing(d) ==
  d.last_gyro_timestamp - d.first_gyro_timestamp < initialization_period

\* StationaryDetector::Reset
DetectorReset(d) ==
  [d EXCEPT !.is_stationary = FALSE,
            !.is_max_correction_threshold_crossed = FALSE,
            !.has_gyro_bias_correction_converged = FALSE,
            !.gyro_bias_delayed_low_pass_filter =
               IF ~IsInitializing(d)
                 THEN Delayed_SetCutoffFrequency(@, kBiasStartup)
                 ELSE Delayed_Reset(@),
            !.convergence_condition_tester = NewTester,
            !.exit_condition_tester = NewTester]

\* The conditions of StationaryDetector::Update.
FiltersReady(d) ==
  /\ HasSettled(d.gyro_low_pass_filter)
  /\ HasSettled(d.accel_low_pass_filter)
  /\ d.gyro_high_pass_filter.init
  /\ d.accel_high_pass_filter.init

exit_condition(d) ==
  \/ d.accel_high_pass_filter.v > accel_high_pass_threshold
  \/ d.gyro_high_pass_filter.v > gyro_high_pass_threshold
  \/ d.last_gyro_sample > gyro_norm_threshold_rad_per_sec
  \/ d.is_max_correction_threshold_crossed

entry_condition(d) ==
  /\ d.accel_low_pass_filter.v < accel_low_pass_threshold
  /\ d.gyro_low_pass_filter.v < gyro_low_pass_threshold

stability_secs(d) ==
  IF IsInitializing(d) THEN init_no_exit_condition_stable_secs
  ELSE no_exit_condition_stable_secs

\* StationaryDetector::Update
DetectorUpdate(d, timestamp_s) ==
  LET Then(s) ==
        LET e == [d EXCEPT !.exit_condition_tester = s.tester] IN
        IF e.is_stationary
          THEN (IF exit_condition(e) THEN DetectorReset(e) ELSE e)
        ELSE IF entry_condition(e) /\ s.stable
          THEN [e EXCEPT !.is_stationary = TRUE]
        ELSE e
  IN IF ~FiltersReady(d) THEN d
     ELSE Then(IsStable(d.exit_condition_tester, ~exit_condition(d),
                        timestamp_s, stability_secs(d)))

\* StationaryDetector::AddAccelMeasurement.  low and high: the norms of the
\* filtered data of the two accel filters after this sample.
AddAccelMeasurement(d, timestamp_s, low, high) ==
  LET e == IF ~d.is_last_accel_initialized
             THEN [d EXCEPT !.last_accel_timestamp = timestamp_s,
                            !.is_last_accel_initialized = TRUE]
             ELSE d
      delta_t == timestamp_s - e.last_accel_timestamp
      f == IF delta_t >= 0
             THEN [e EXCEPT !.accel_low_pass_filter =
                              LowPass_AddSampleData(@, low, delta_t),
                            !.accel_high_pass_filter =
                              HighPass_AddSampleData(@, high)]
             ELSE e
  IN [f EXCEPT !.last_accel_timestamp = timestamp_s]

\* StationaryDetector::AddGyroMeasurement.  gyro_sample: the norm of the
\* sample; low and high: the filtered data of the gyro filters after this
\* sample; bias: the sample as the bias filter is given it.
AddGyroMeasurement(d, gyro_sample, timestamp_s, low, high, bias) ==
  LET e == IF ~d.is_last_gyro_initialized
             THEN [d EXCEPT !.last_gyro_sample = gyro_sample,
                            !.last_gyro_timestamp = timestamp_s,
                            !.first_gyro_timestamp = timestamp_s,
                            !.is_last_gyro_initialized = TRUE]
             ELSE d
      delta_t == timestamp_s - e.last_gyro_timestamp
      Fed == [e EXCEPT !.gyro_low_pass_filter =
                         LowPass_AddSampleData(@, low, delta_t),
                       !.gyro_high_pass_filter =
                         HighPass_AddSampleData(@, high),
                       !.gyro_bias_delayed_low_pass_filter =
                         IF e.is_stationary
                           THEN Delayed_AddSampleData(@, bias, delta_t)
                           ELSE @]
      f == IF delta_t >= 0 THEN DetectorUpdate(Fed, timestamp_s) ELSE e
  IN [f EXCEPT !.last_gyro_timestamp = timestamp_s,
               !.last_gyro_sample = gyro_sample]

\* StationaryDetector::GetGyroBiasCorrection: the detector after the call
\* and the vector returned.  The results of cwiseMin and cwiseMax are not
\* assigned: stationary_correction stays as it is.
GetGyroBiasCorrection(d, current_external_bias, timestamp_s) ==
  LET stationary_correction ==
        Minus3(current_external_bias, d.gyro_bias_delayed_low_pass_filter.lp.v)
      within == NormSq(stationary_correction)
                  < max_stationary_gyro_bias_correction
                    * max_stationary_gyro_bias_correction
      beyond == NormSq(stationary_correction)
                  > max_stationary_gyro_bias_correction
                    * max_stationary_gyro_bias_correction
      gain(e) == IF IsInitializing(e)
                   THEN init_bias_correction_gain_multiplier
                        * stationary_bias_correction_gain
                   ELSE stationary_bias_correction_gain
      Then(s) ==
        LET e == [d EXCEPT !.convergence_condition_tester = s.tester,
                           !.has_gyro_bias_correction_converged =
                              IF s.stable THEN TRUE ELSE @]
        IN IF ~IsInitializing(e) /\ e.has_gyro_bias_correction_converged
              /\ beyond
             THEN [d |-> [e EXCEPT !.is_max_correction_threshold_crossed = TRUE],
                   out |-> Zero3]
             ELSE [d |-> e, out |-> Times3(stationary_correction, gain(e))]
  IN IF ~(d.is_stationary
          /\ BiasIsAvailable(d.gyro_bias_delayed_low_pass_filter))
       THEN [d |-> d, out |-> Zero3]
       ELSE Then(IsStable(d.convergence_condition_tester, within,
                          timestamp_s, convergence_condition_stable_secs))

\* Sensor streams.  An accel sample carries the latest timestamp; a gyro
\* sample comes a step of the clock after it (one of the steps is
\* backwards).  Of a filter the sample gives the output at or next to the
\* threshold: an accel sample at rest or in motion; a gyro sample at rest,
\* drifting (no entry), turning (its norm above the threshold) or shaking
\* (its high-pass norm above the threshold).
AccelReadings ==
  { [low |-> 0, high |-> accel_high_pass_threshold],
    [low |-> accel_low_pass_threshold, high |-> accel_high_pass_threshold + 1] }
AtRest ==
  [sample |-> gyro_norm_threshold_rad_per_sec, low |-> 0,
   high |-> gyro_high_pass_threshold]
GyroSamples ==
  { [step |-> 20, reading |-> AtRest],
    [step |-> 120, reading |-> AtRest],
    [step |-> 0 - 20, reading |-> AtRest],
    [step |-> 20, reading |-> [AtRest EXCEPT !.low = gyro_low_pass_threshold]],
    [step |-> 20, reading |-> [AtRest EXCEPT !.sample = @ + 1]],
    [step |-> 20, reading |-> [AtRest EXCEPT !.high = @ + 1]] }
BiasValues == {Zero3, <<4, 0, 0>>}
ExternalBiases == {Zero3, <<9, 0 - 9, 0>>, <<0, 20, 0>>}

\* Calls made on the detector, and the latest timestamp given to it.
MaxDetectorCalls == 9
MaxTime == 300

\* The last call: valid, whether its time step was not negative;
\* was_stationary, was_crossed and was_initializing, is_stationary_,
\* is_max_correction_threshold_crossed_ and IsInitializing() as the call
\* found them.
NoDetectorCall ==
  [kind |-> "none", timestamp_s |-> 0, valid |-> FALSE,
   ext |-> Zero3, out |-> Zero3, was_stationary |-> FALSE,
   was_crossed |-> FALSE, was_initializing |-> TRUE]

\* The history of the updates that evaluated the conditions: whether the
\* last call was one, whether the entry condition held and the exit
\* condition did not hold on the last of them, and the earliest timestamp
\* of the updates since each of the two last changed to that.
NoHistory ==
  [evaluated |-> FALSE, entry |-> FALSE, entry_since |-> 0,
   no_exit |-> FALSE, no_exit_since |-> 0]

\* --------------------------------------- geometry in fixed point
\* cpp/sensor_fusion/geometry_toolbox_mahony.h and quaternion_integrator.cc.
\* A double is kept in thousandths: kUnit stands for 1.0, a time is in
\* milliseconds, a rate in mrad/s, an acceleration in mm/s^2.  A quaternion
\* is <<x, y, z, w>> (JPL), a matrix the tuple of its rows.  A product of
\* two numbers is brought back to thousandths by Quot, to the nearest.

kUnit == 1000

Quot(a, b) == (2 * a + b) \div (2 * b)

Abs(a) == IF a < 0 THEN 0 - a ELSE a

RECURSIVE IsqrtFrom(_, _)
IsqrtFrom(n, x) ==
  LET Then(y) == IF y >= x THEN x ELSE IsqrtFrom(n, y)
  IN Then((x + n \div x) \div 2)

\* std::sqrt of an integer, to the nearest.
Isqrt(n) ==
  IF n <= 0 THEN 0
  ELSE LET Then(r) == IF n - r * r > r THEN r + 1 ELSE r
       IN Then(IsqrtFrom(n, n))

Plus3(a, b) == <<a[1] + b[1], a[2] + b[2], a[3] + b[3]>>
Neg3(a) == <<0 - a[1], 0 - a[2], 0 - a[3]>>
Dot3(a, b) == Quot(a[1] * b[1] + a[2] * b[2] + a[3] * b[3], kUnit)
Cross3(a, b) ==
  << Quot(a[2] * b[3] - a[3] * b[2], kUnit),
     Quot(a[3] * b[1] - a[1] * b[3], kUnit),
     Quot(a[1] * b[2] - a[2] * b[1], kUnit) >>
Scaled3(a, k) == <<Quot(a[1] * k, kUnit), Quot(a[2] * k, kUnit),
                   Quot(a[3] * k, kUnit)>>
Norm3(a) == Isqrt(NormSq(a))

\* Eigen's normalized() of a vector that is not zero.
Normalized3(a) ==
  LET Then(n) ==
        IF n = 0 THEN a
        ELSE <<Quot(a[1] * kUnit, n), Quot(a[2] * kUnit, n),
               Quot(a[3] * kUnit, n)>>
  IN Then(Norm3(a))

NormSq4(q) == q[1] * q[1] + q[2] * q[2] + q[3] * q[3] + q[4] * q[4]
Norm4(q) == Isqrt(NormSq4(q))
Neg4(q) == <<0 - q[1], 0 - q[2], 0 - q[3], 0 - q[4]>>
Normalized4(q) ==
  LET Then(n) ==
        IF n = 0 THEN q
        ELSE <<Quot(q[1] * kUnit, n), Quot(q[2] * kUnit, n),
               Quot(q[3] * kUnit, n), Quot(q[4] * kUnit, n)>>
  IN Then(Norm4(q))

\* The identity rotation.
kIdentity == <<0, 0, 0, kUnit>>

\* geometry_toolbox::Omega(w) * q
OmegaTimes(w, q) ==
  << Quot(w[3] * q[2] - w[2] * q[3] + w[1] * q[4], kUnit),
     Quot(w[1] * q[3] - w[3] * q[1] + w[2] * q[4], kUnit),
     Quot(w[2] * q[1] - w[1] * q[2] + w[3] * q[4], kUnit),
     Quot(0 - w[1] * q[1] - w[2] * q[2] - w[3] * q[3], kUnit) >>

\* geometry_toolbox::QuaternionToRotationMatrix
QuaternionToRotationMatrix(q) ==
  LET xx == q[1] * q[1]
      yy == q[2] * q[2]
      zz == q[3] * q[3]
      ww == q[4] * q[4]
  IN << << Quot(xx - yy - zz + ww, kUnit),
           Quot(2 * (q[1] * q[2] + q[3] * q[4]), kUnit),
           Quot(2 * (q[1] * q[3] - q[2] * q[4]), kUnit) >>,
        << Quot(2 * (q[1] * q[2] - q[3] * q[4]), kUnit),
           Quot(yy - xx - zz + ww, kUnit),
           Quot(2 * (q[2] * q[3] + q[1] * q[4]), kUnit) >>,
        << Quot(2 * (q[1] * q[3] + q[2] * q[4]), kUnit),
           Quot(2 * (q[2] * q[3] - q[1] * q[4]), kUnit),
           Quot(zz + ww - xx - yy, kUnit) >> >>

Col(m, j) == <<m[1][j], m[2][j], m[3][j]>>
FromCols(a, b, c) ==
  << <<a[1], b[1], c[1]>>, <<a[2], b[2], c[2]>>, <<a[3], b[3], c[3]>> >>

\* geometry_toolbox::QuaternionMultiplication: the product is normalized
\* and given a w that is not negative.
QuaternionMultiplication(q1, q2) ==
  LET r == << Quot(q1[4] * q2[1] + q1[3] * q2[2] - q1[2] * q2[3]
                     + q1[1] * q2[4], kUnit),
              Quot(q1[4] * q2[2] - q1[3] * q2[1] + q1[1] * q2[3]
                     + q1[2] * q2[4], kUnit),
              Quot(q1[2] * q2[1] - q1[1] * q2[2] + q1[4] * q2[3]
                     + q1[3] * q2[4], kUnit),
              Quot(q1[4] * q2[4] - q1[1] * q2[1] - q1[2] * q2[2]
                     - q1[3] * q2[3], kUnit) >>
      n == Normalized4(r)
  IN IF n[4] < 0 THEN Neg4(n) ELSE n

\* geometry_toolbox::RotationMatrixToQuaternion: the branch of the largest
\* of ww, xx, yy, zz; only the first gives a w that cannot be negative.
RotationMatrixToQuaternion(mat) ==
  LET d0 == mat[1][1]
      d1 == mat[2][2]
      d2 == mat[3][3]
      ww == kUnit + d0 + d1 + d2
      xx == kUnit + d0 - d1 - d2
      yy == kUnit - d0 + d1 - d2
      zz == kUnit - d0 - d1 + d2
      max == Max(ww, Max(xx, Max(yy, zz)))
      r4 == Isqrt(4 * max * kUnit)
      Over(a) == Quot(a * kUnit, r4)
  IN IF ww = max
       THEN << Over(mat[2][3] - mat[3][2]), Over(mat[3][1] - mat[1][3]),
               Over(mat[1][2] - mat[2][1]), Quot(r4, 4) >>
     ELSE IF xx = max
       THEN << 0 - Quot(r4, 4), Over(0 - (mat[1][2] + mat[2][1])),
               Over(0 - (mat[1][3] + mat[3][1])),
               Over(mat[3][2] - mat[2][3]) >>
     ELSE IF yy = max
       THEN << Over(0 - (mat[1][2] + mat[2][1])), 0 - Quot(r4, 4),
               Over(0 - (mat[2][3] + mat[3][2])),
               Over(mat[1][3] - mat[3][1]) >>
     ELSE << Over(0 - (mat[1][3] + mat[3][1])),
             Over(0 - (mat[2][3] + mat[3][2])), 0 - Quot(r4, 4),
             Over(mat[2][1] - mat[1][2]) >>

\* geometry_toolbox::RotateInto: opposite vectors (a real part that is not
\* above zero) turn half a turn about an axis orthogonal to from.
RotateInto(from, to) ==
  LET norm_u_norm_v == Quot(Norm3(from) * Norm3(to), kUnit)
      real_part == norm_u_norm_v + Dot3(from, to)
      w == IF real_part <= 0
             THEN IF Abs(from[1]) > Abs(from[3])
                    THEN <<0 - from[2], from[1], 0>>
                    ELSE <<0, 0 - from[3], from[2]>>
             ELSE Cross3(from, to)
  IN Normalized4(<<0 - w[1], 0 - w[2], 0 - w[3],
                   IF real_part <= 0 THEN 0 ELSE real_part>>)

\* QuaternionIntegrator::Integrate: an Euler step with the first three of
\* the gyro measurements (StateTimeDerivative at t = 0), then the
\* normalization and the change of sign.
Integrate(state, gyro_measurements, delta_t) ==
  LET angle == <<Quot(gyro_measurements[1] * delta_t, kUnit),
                 Quot(gyro_measurements[2] * delta_t, kUnit),
                 Quot(gyro_measurements[3] * delta_t, kUnit)>>
      k1 == OmegaTimes(angle, state)
      next == Normalized4(<<state[1] + Quot(k1[1], 2),
                            state[2] + Quot(k1[2], 2),
                            state[3] + Quot(k1[3], 2),
                            state[4] + Quot(k1[4], 2)>>)
  IN IF next[4] < 0 THEN Neg4(next) ELSE next

\* --------------------------------------------- the orientation filter
\* cpp/sensor_fusion/orientation_filter.{h,cc}, with the configuration of
\* OrientationFilterConfiguration's defaults (no stationary bias correction,
\* kDontUseMagToInitOrientation) but for mag_yaw_correction_gain.

kMinTimestepS == 1
kMaxTimestepS == 1000
kMagnitudeOfGravity == 9810
kNumMagForInitialization == 25
kNumMagForFilterOutlierRejection == 10
kMaxTimeDifferentInMagAndGyroInSeconds == 3
attitude_correction_gain == 2
attitude_correction_gain_during_initialization == 15
\* 1 / gyroscope_bias_correction_gain
kBiasGainInverse == 10
initialization_period_s == 1000
\* cos(44 degrees): an angular error is above 44 degrees when the dot
\* product of the two unit vectors is below it.
kCosMaxAngularError == 719

\* A validation of the time steps that accepts every step.
IsTimestampDeltaValidAlways(timestamp_delta_s) == TRUE

\* IsTimestampDeltaValid
IsTimestampDeltaValid(timestamp_delta_s) ==
  ~(timestamp_delta_s <= kMinTimestepS)
    /\ ~(timestamp_delta_s > kMaxTimestepS)

SensorSample(sample, timestamp_s) ==
  [sample |-> sample, timestamp_s |-> timestamp_s]

\* What a public call did, for the properties: ran, a propagation step was
\* made; wrote, the column of projected_mag_measurement_vector_ that was
\* written (-1: none); solved, the outcome of ComputeYawAlignmentMatrix;
\* invoked, how many times each callback was called; judged, whether the
\* mag sample was compared with the estimate, and off, whether it was found
\* more than kMaxAllowedMagDeviationRadians away; restarted, why
\* mag_meas_for_init_index_ was set to zero ("calibration", "failure",
\* "outliers" or "no").
NoEvents ==
  [ran |-> FALSE, wrote |-> 0 - 1, solved |-> "none", invoked |-> <<>>,
   judged |-> FALSE, off |-> FALSE, restarted |-> "no"]

\* OrientationFilter::OrientationFilter.  A mag sample is kept by its
\* timestamp and by its angle to the estimated direction of the field
\* ("along": none, "off": more than kMaxAllowedMagDeviationRadians).
NewFilter(mag_yaw_correction_gain) ==
  [ mag_yaw_correction_gain |-> mag_yaw_correction_gain,
    q |-> kIdentity, b |-> Zero3,
    is_orientation_initialized |-> FALSE,
    first_accel_timestamp_s |-> 0,
    has_received_gyro_sample |-> FALSE,
    mag_is_available |-> FALSE,
    current_accel_measurement |-> SensorSample(Zero3, 0),
    current_gyro_measurement |-> SensorSample(Zero3, 0),
    previous_gyro_measurement |-> SensorSample(Zero3, 0),
    current_mag_measurement |-> SensorSample("along", 0),
    previous_mag_measurement |-> SensorSample("along", 0),
    mag_meas_for_init_index |-> 0,
    new_mag_calibration_available |-> FALSE,
    mag_status |-> "kInitial",
    accumulated_num_of_outlier_mag_measurement |-> 0,
    current_mag_sample_fits_calibration |-> FALSE,
    on_bad_mag_calibration_detected_callbacks |-> {},
    ev |-> NoEvents ]

\* OrientationFilter::IsInitializing
Filter_IsInitializing(f) ==
  f.is_orientation_initialized
    /\ f.current_accel_measurement.timestamp_s - f.first_accel_timestamp_s
         < initialization_period_s

\* OrientationFilter::ComputeGravityEstimate
ComputeGravityEstimate(f) == Col(QuaternionToRotationMatrix(f.q), 3)

\* BadMagnetometerCalibrationDetectedBroadcast: every callback of the set
\* is called once.
BadMagnetometerCalibrationDetectedBroadcast(f) ==
  [f EXCEPT !.ev.invoked =
     [c \in f.on_bad_mag_calibration_detected_callbacks |-> 1]]

\* The gain of the accelerometer's correction (orientation_filter.cc
\* 543-571).
AccelGain(f, accel_magnitude) ==
  LET gyro_norm == Norm3(f.current_gyro_measurement.sample)
  IN IF ~Filter_IsInitializing(f)
       THEN Quot(Quot(kUnit * kUnit,
                      kUnit + Abs(accel_magnitude - kMagnitudeOfGravity))
                   * Max(0, Min(kUnit, 1500 - 5 * gyro_norm)), kUnit)
       ELSE Max(0, Min(kUnit, 1500 - 15 * gyro_norm))

\* What follows ComputeYawAlignmentMatrix on a full buffer
\* (orientation_filter.cc 611-621).  A filter that takes the alignment to
\* have succeeded whatever the solver returned comes first.
YawAlignmentTakenToSucceed(g, solves) == [g EXCEPT !.mag_status = "kAligned"]

YawAlignmentOutcome(g, solves) ==
  IF solves
    THEN [g EXCEPT !.mag_status = "kAligned"]
    ELSE [g EXCEPT !.mag_meas_for_init_index = 0,
                   !.ev.restarted = "failure"]

\* The part of ComputeAccelAndMagRateCorrection that consumes a mag sample
\* (orientation_filter.cc 577-664), with the mag sample known to be usable.
\* solves: whether ComputeYawAlignmentMatrix succeeds on the buffer.  The
\* correction of a sample along the estimate is zero.
ConsumeMagSample(f, solves) ==
  LET f1 == IF f.new_mag_calibration_available
              THEN [f EXCEPT !.mag_status = "kAligning",
                             !.mag_meas_for_init_index = 0,
                             !.new_mag_calibration_available = FALSE,
                             !.ev.restarted = "calibration"]
              ELSE f
      f2 == IF f1.mag_status = "kAligning"
              THEN LET g == [f1 EXCEPT
                               !.ev.wrote = f1.mag_meas_for_init_index,
                               !.mag_meas_for_init_index = @ + 1]
                   IN IF g.mag_meas_for_init_index = kNumMagForInitialization
                        THEN YawAlignmentOutcome(
                               [g EXCEPT !.ev.solved =
                                  IF solves THEN "ok" ELSE "failed"], solves)
                        ELSE g
              ELSE f1
  IN IF f2.mag_status = "kAligned"
       THEN LET f3 == [f2 EXCEPT !.mag_is_available = FALSE,
                                 !.ev.judged = TRUE]
            IN IF f3.current_mag_measurement.sample = "off"
                 THEN LET f4 == [f3 EXCEPT
                        !.accumulated_num_of_outlier_mag_measurement = @ + 1,
                        !.ev.off = TRUE]
                      IN IF f4.accumulated_num_of_outlier_mag_measurement
                              > kNumMagForFilterOutlierRejection
                           THEN [BadMagnetometerCalibrationDetectedBroadcast(
                                   [f4 EXCEPT !.mag_status = "kAligning",
                                              !.mag_meas_for_init_index = 0,
                                              !.ev.restarted = "outliers"])
                                 EXCEPT
                             !.accumulated_num_of_outlier_mag_measurement = 0]
                           ELSE f4
                 ELSE [f3 EXCEPT
                         !.accumulated_num_of_outlier_mag_measurement = 0]
       ELSE f2

\* OrientationFilter::ComputeAccelAndMagRateCorrection: the filter and the
\* rate correction.
ComputeAccelAndMagRateCorrection(f, solves) ==
  LET accel_magnitude == Norm3(f.current_accel_measurement.sample)
      accel_meas == Normalized3(f.current_accel_measurement.sample)
      accel_est == Col(QuaternionToRotationMatrix(f.q), 3)
      gain == AccelGain(f, accel_magnitude)
      rate_correction_vector ==
        Scaled3(Cross3(accel_meas, accel_est), Quot(gain, 2))
  IN IF accel_magnitude = 0 THEN [f |-> f, rate |-> Zero3]
     ELSE IF f.mag_is_available /\ f.current_mag_sample_fits_calibration
               /\ f.mag_yaw_correction_gain > 0
               /\ f.current_mag_measurement.timestamp_s > 0
       THEN [f |-> ConsumeMagSample(f, solves),
             rate |-> rate_correction_vector]
     ELSE [f |-> f, rate |-> rate_correction_vector]

\* OrientationFilter::EstimateBiasUpdateUsingMag: zero until the filter is
\* initialized and the samples have been static
\* kMagBiasCorrectionStaticCount times; then the difference of two cross
\* products, of the mag direction now and at the previous mag sample as
\* measured and as estimated, which are equal when the orientation has not
\* changed between the two, as with the gyro samples at rest that come with
\* the mag samples here.
EstimateBiasUpdateUsingMag(f) == Zero3

\* OrientationFilter::FilterPropagate
FilterPropagate(f, solves) ==
  LET delta_t == f.current_gyro_measurement.timestamp_s
                   - f.previous_gyro_measurement.timestamp_s
      gyro_time_ahead == f.current_gyro_measurement.timestamp_s
                           - f.current_mag_measurement.timestamp_s
      f1 == IF f.mag_is_available
                 /\ gyro_time_ahead > kMaxTimeDifferentInMagAndGyroInSeconds
              THEN [f EXCEPT !.mag_is_available = FALSE] ELSE f
      Then(r) ==
        LET g == r.f
            k == IF Filter_IsInitializing(g)
                   THEN attitude_correction_gain_during_initialization
                   ELSE attitude_correction_gain
            gyro_measurements ==
              Plus3(Minus3(g.previous_gyro_measurement.sample, g.b),
                    Times3(r.rate, k))
            next_b ==
              IF Filter_IsInitializing(g) THEN g.b
              ELSE Minus3(g.b, <<Quot(r.rate[1] * delta_t,
                                      kBiasGainInverse * kUnit),
                                 Quot(r.rate[2] * delta_t,
                                      kBiasGainInverse * kUnit),
                                 Quot(r.rate[3] * delta_t,
                                      kBiasGainInverse * kUnit)>>)
            g1 == [g EXCEPT !.q = Integrate(g.q, gyro_measurements, delta_t),
                            !.b = <<next_b[1], next_b[2], next_b[3]>>,
                            !.ev.ran = TRUE]
            mag_delta_t == g1.current_mag_measurement.timestamp_s
                             - g1.previous_mag_measurement.timestamp_s
        IN IF g1.mag_is_available
             THEN [g1 EXCEPT
                     !.b = Minus3(@, Scaled3(EstimateBiasUpdateUsingMag(g1),
                                             mag_delta_t)),
                     !.mag_is_available = FALSE]
             ELSE g1
  IN IF ~IsTimestampDeltaValid(delta_t) THEN f
     ELSE Then(ComputeAccelAndMagRateCorrection(f1, solves))

\* OrientationFilter::OrientationFromAccelAndMag with
\* kDontUseMagToInitOrientation: the filter and whether it succeeded.
OrientationFromAccelAndMag(f) ==
  LET L_z == Normalized3(f.current_accel_measurement.sample)
      landscape == Abs(L_z[2]) < Abs(L_z[1])
      canonical_down == IF landscape THEN <<kUnit, 0, 0>>
                        ELSE <<0, kUnit, 0>>
      y0 == IF landscape THEN <<0, kUnit, 0>> ELSE <<0 - kUnit, 0, 0>>
      y1 == IF Dot3(L_z, canonical_down) < 0 THEN Neg3(y0) ELSE y0
      x0 == Neg3(Cross3(L_z, y1))
      L_x == Normalized3(x0)
      L_y == Cross3(L_z, L_x)
  IN IF Norm3(x0) = 0 \/ Norm3(L_y) = 0 THEN [f |-> f, ok |-> FALSE]
     ELSE [f |-> [f EXCEPT
                    !.q = RotationMatrixToQuaternion(FromCols(L_x, L_y, L_z)),
                    !.mag_is_available = FALSE],
           ok |-> TRUE]

\* OrientationFilter::Run
Run(f, solves) ==
  LET f1 == IF ~f.is_orientation_initialized
                 /\ f.current_accel_measurement.timestamp_s > 0
              THEN LET r == OrientationFromAccelAndMag(f)
                   IN [r.f EXCEPT !.is_orientation_initialized = r.ok]
              ELSE f
  IN IF f1.is_orientation_initialized THEN FilterPropagate(f1, solves)
     ELSE f1

\* The correction of the first accel sample after SetOrientation
\* (orientation_filter.cc 162-183).
AlignWithGravity(f, sample) ==
  LET g_from_acc == Normalized3(sample)
      g_est == ComputeGravityEstimate(f)
      dot_product == Max(0 - kUnit, Min(kUnit, Dot3(g_from_acc, g_est)))
  IN IF dot_product <= kCosMaxAngularError
       THEN [f EXCEPT !.q = QuaternionMultiplication(
                              RotateInto(g_est, g_from_acc), f.q)]
       ELSE f

\* OrientationFilter::AddAccelMeasurement
Filter_AddAccelMeasurement(f0, sample, timestamp_s, solves) ==
  LET f == [f0 EXCEPT !.ev = NoEvents]
      f1 == IF f.first_accel_timestamp_s = 0
              THEN LET g == [f EXCEPT !.first_accel_timestamp_s = timestamp_s]
                   IN IF g.is_orientation_initialized
                        THEN AlignWithGravity(g, sample) ELSE g
              ELSE f
      f2 == [f1 EXCEPT
               !.current_accel_measurement = SensorSample(sample, timestamp_s)]
  IN IF ~f2.has_received_gyro_sample
       THEN Run([f2 EXCEPT !.current_gyro_measurement =
                             SensorSample(Zero3, timestamp_s)], solves)
       ELSE f2

\* OrientationFilter::AddGyroMeasurement
Filter_AddGyroMeasurement(f0, sample, timestamp_s, solves) ==
  LET f == [f0 EXCEPT !.ev = NoEvents,
              !.current_gyro_measurement = SensorSample(sample, timestamp_s)]
      delta_t_s == timestamp_s - f.previous_gyro_measurement.timestamp_s
      f1 == IF IsTimestampDeltaValid(delta_t_s)
              THEN Run([f EXCEPT !.has_received_gyro_sample = TRUE], solves)
              ELSE f
  IN [f1 EXCEPT !.previous_gyro_measurement = f1.current_gyro_measurement]

\* OrientationFilter::AddMagMeasurement without the stationary bias
\* correction: the low-pass filter is initialized by the second sample, and
\* previous_mag_measurement_ takes the timestamp of the sample before.
AddMagMeasurement(f0, sample, timestamp_s, fits_calibration) ==
  LET f == [f0 EXCEPT !.ev = NoEvents]
      mag_delta_time_s ==
        timestamp_s - f.previous_mag_measurement.timestamp_s
  IN IF f.current_mag_measurement.timestamp_s = 0
       THEN [f EXCEPT
               !.current_mag_measurement = SensorSample(sample, timestamp_s),
               !.current_mag_sample_fits_calibration = fits_calibration]
     ELSE [f EXCEPT
             !.previous_mag_measurement =
               SensorSample(f.current_mag_measurement.sample,
                            f.current_mag_measurement.timestamp_s),
             !.current_mag_measurement = SensorSample(sample, timestamp_s),
             !.current_mag_sample_fits_calibration = fits_calibration,
             !.mag_is_available = IsTimestampDeltaValid(mag_delta_time_s)]

\* OrientationFilter::SetOrientation
SetOrientation(f, orientation) ==
  [f EXCEPT !.ev = NoEvents, !.q = orientation,
            !.is_orientation_initialized = TRUE,
            !.first_accel_timestamp_s = 0]

\* OrientationFilter::SetMagBias
SetMagBias(f) ==
  [f EXCEPT !.ev = NoEvents, !.new_mag_calibration_available = TRUE]

\* RegisterOnBadMagnetometerCalibrationDetectedCallback and its opposite
RegisterCallback(f, callback) ==
  [f EXCEPT !.ev = NoEvents,
            !.on_bad_mag_calibration_detected_callbacks = @ \cup {callback}]
UnRegisterCallback(f, callback) ==
  [f EXCEPT !.ev = NoEvents,
            !.on_bad_mag_calibration_detected_callbacks = @ \ {callback}]

\* OrientationFilter::Recenter.  With a = L_R_G(0, 2) and b = L_R_G(1, 2),
\* sqrt(1 / (1 + (b / a)^2)) is computed as |a| / sqrt(a^2 + b^2), and its
\* product with b / a as b * sign(a) / sqrt(a^2 + b^2).
Recenter(f) ==
  LET L_R_G == QuaternionToRotationMatrix(f.q)
      down == Col(L_R_G, 3)
      a == L_R_G[1][3]
      b == L_R_G[2][3]
      h == Isqrt(a * a + b * b)
      middle == IF a = 0 \/ h = 0 THEN <<kUnit, 0, 0>>
                ELSE << 0 - Quot(b * kUnit, h) * (IF a < 0 THEN 0 - 1 ELSE 1),
                        Quot(Abs(a) * kUnit, h), 0 >>
  IN [f EXCEPT !.ev = NoEvents,
               !.q = RotationMatrixToQuaternion(
                       FromCols(Cross3(middle, down), middle, down))]

\* The calls made on the filter and their inputs: timestamps a step of
\* 1 ms, 2 ms, 1 s and more than 1 s apart; an accel sample at rest, flat
\* or on its side; a gyro sample at rest or turning about z; orientations
\* that are the identity, its opposite and its double.
MaxFilterCalls == 4
FilterTimes == {500, 501, 502, 1502, 1503}
kAtRest == <<0, 0, kMagnitudeOfGravity>>
FilterAccels == {kAtRest, <<kMagnitudeOfGravity, 0, 0>>}
FilterGyros == {Zero3, <<0, 0, 500>>}
Orientations == {kIdentity, <<0, 0, 0, 0 - kUnit>>, <<0, 0, 0, 2 * kUnit>>}

\* The mag stream: its period, the lag of the gyro sample, the number
\* of its samples and the callbacks.
kMagPeriod == 16
kGyroLag == 2
MaxMagSamples == 61
Callbacks == {1}
MagReadings ==
  { [sample |-> "along", fits_calibration |-> TRUE],
    [sample |-> "off", fits_calibration |-> TRUE],
    [sample |-> "off", fits_calibration |-> FALSE] }

NoFilterCall ==
  [kind |-> "none", sample |-> Zero3, timestamp_s |-> 0,
   before |-> [q |-> kIdentity, b |-> Zero3,
               gyro |-> SensorSample(Zero3, 0), previous_gyro_t |-> 0,
               mag_status |-> "kInitial",
               new_mag_calibration_available |-> FALSE],
   ever_gyro |-> FALSE]

NoFilterHistory == [ever_gyro |-> FALSE, buffered |-> 0, filled |-> 0, run |-> 0]

\* ------------------------------------------------------------- state
\* rtPc, rtIn, rtRes, rtOut: a ReadAtom call followed by a WriteAtom call;
\* rtTree: the atom and its stream as the calls made so far left them;
\* rtAgain: the result of a second WriteAtom call on the same atom.
VARIABLES rtPc, rtIn, rtRes, rtOut, rtTree, rtAgain
\* tree: the root of an atom tree; tN: the mutations made on it; tLast: the
\* last mutation (the path of child indices from the root to the atom it
\* was called on, and whether it got as far as Update()).
VARIABLES tree, tN, tLast
\* sAtom: a chunk-offset atom, sAtom0 as it was read; sD: the sum of the
\* adjustments made, sPeak the largest value this sum has had and sN their
\* number; sPc and sOut: whether and as what the atom has been written.
VARIABLES sPc, sAtom, sAtom0, sD, sPeak, sN, sOut
\* A call of ModifyMoov(modifier, input_url, output_url).  mmMode: "rewrite"
\* (the urls differ) or "inplace"; mmFile: the input file as the call finds
\* it; mmReader: the reader on it; mmAtoms: top_level_atoms; mmLoc: the
\* locals computed before the modifier runs; mmMod: the modifier, mmModRet
\* what it returned; mmStatus: what the call returned; mmOut: the bytes put
\* on the output file (rewrite); mmWrites: the byte strings written into
\* the file, each with its position (in place); mmPc: where the call is.
VARIABLES mmPc, mmMode, mmFile, mmReader, mmAtoms, mmLoc, mmMod, mmModRet,
          mmStatus, mmOut, mmWrites

rtVars == <<rtPc, rtIn, rtRes, rtOut, rtTree, rtAgain>>
treeVars == <<tree, tN, tLast>>
stcoVars == <<sPc, sAtom, sAtom0, sD, sPeak, sN, sOut>>
mmVars == <<mmPc, mmMode, mmFile, mmReader, mmAtoms, mmLoc, mmMod, mmModRet,
            mmStatus, mmOut, mmWrites>>

\* An edit list being built, written and read back.  eAtom: the AtomELST;
\* eN: the calls of AddEntry and ReplaceEntry made; eOut: what WriteAtom
\* wrote of it; eBack: what ReadAtom made of these bytes.
VARIABLES ePc, eAtom, eN, eOut, eBack

elstVars == <<ePc, eAtom, eN, eOut, eBack>>

\* A moov tree and the injections called on it.  iMoov: the tree; iN: the
\* calls made; iLast: the last call, its arguments, its status and the tree
\* before it.
VARIABLES iMoov, iN, iLast

injVars == <<iMoov, iN, iLast>>

\* An sdtp made from a key-frame list.  pIndices: the list; pAtom: the
\* AtomSDTP; pPc: "new" before PopulateFromKeyFrameIndices, "populated" after.
VARIABLES pPc, pIndices, pAtom

popVars == <<pPc, pIndices, pAtom>>

\* A stationary detector and the calls made on it.  det: the detector;
\* dNow: the latest timestamp given to it; dN: the calls made; dLast: the
\* last call, its arguments, its result and the detector before it; dHist:
\* the history of its updates.
VARIABLES det, dNow, dN, dLast, dHist

detVars == <<det, dNow, dN, dLast, dHist>>

\* A steady sensor stream into the detector.  stPeriod: its sample period;
\* stPhase: the sample that comes next, "accel" or "gyro"; stGets: the
\* calls of GetGyroBiasCorrection made between its samples.
VARIABLES stPeriod, stPhase, stGets

steadyVars == <<stPeriod, stPhase, stGets>>

\* A DelayedLowPassFilter and the calls made on it.  dl: the filter; dlN:
\* the samples added; dlLog: the values its low-pass filter was given, in
\* order; dlLast: the last call and the filter and the log before it.
VARIABLES dl, dlN, dlLog, dlLast

delayedVars == <<dl, dlN, dlLog, dlLast>>

\* An OrientationFilter and the calls made on it.  flt: the filter; fN: the
\* calls made; fLast: the last call; fHist: what the calls so far amount
\* to; fPhase: the call that comes next on a mag stream.
VARIABLES flt, fN, fLast, fHist, fPhase

filterVars == <<flt, fN, fLast, fHist, fPhase>>

coreVars == <<rtVars, treeVars, stcoVars, mmVars>>
extVars ==
  <<elstVars, injVars, popVars, detVars, steadyVars, delayedVars, filterVars>>
elstRest ==
  <<coreVars, injVars, popVars, detVars, steadyVars, delayedVars, filterVars>>
injRest ==
  <<coreVars, elstVars, popVars, detVars, steadyVars, delayedVars, filterVars>>
popRest ==
  <<coreVars, elstVars, injVars, detVars, steadyVars, delayedVars, filterVars>>
detRest == <<coreVars, elstVars, injVars, popVars, delayedVars, filterVars>>
delayedRest ==
  <<coreVars, elstVars, injVars, popVars, detVars, steadyVars, filterVars>>
filterRest ==
  <<coreVars, elstVars, injVars, popVars, detVars, steadyVars, delayedVars>>
vars == <<coreVars, extVars>>

NoWrite == [ok |-> FALSE, out |-> <<>>]
NoRead == [ok |-> FALSE, atom |-> NullAtom, r |-> NewReader(<<>>, "memory")]
NoTree == [a |-> NullAtom, src |-> NewReader(<<>>, "memory"), ok |-> FALSE]

RTIdle ==
  /\ rtPc = "idle" /\ rtIn = NewReader(<<>>, "memory")
  /\ rtRes = NoRead /\ rtOut = NoWrite
  /\ rtTree = NoTree /\ rtAgain = NoWrite

\* tLast before any mutation.  kind and index: the call; ds0 and hs0: the
\* data_size and header_size of the atom it was made on, before it; prev:
\* the same of the mutation before it.
NoCall == [path |-> <<>>, changed |-> FALSE, kind |-> "none", index |-> 0 - 1,
           ds0 |-> 0, hs0 |-> 0]
NoMutation == [path |-> <<>>, changed |-> FALSE, kind |-> "none",
               index |-> 0 - 1, ds0 |-> 0, hs0 |-> 0, prev |-> NoCall]

TreeIdle ==
  /\ tree = NullAtom /\ tN = 0
  /\ tLast = NoMutation

StcoIdle ==
  /\ sPc = "idle" /\ sAtom = NullAtom /\ sAtom0 = NullAtom
  /\ sD = 0 /\ sPeak = 0 /\ sN = 0 /\ sOut = NoWrite

NoLoc ==
  [moov_index |-> 0 - 1, mdat_index |-> 0 - 1,
   mdat_position_before_update |-> 0, size_before_update |-> 0,
   moov_position_before_update |-> 0, moov_size_before_update |-> 0]

NoMod == [kind |-> "none", n |-> 0]

MMIdle ==
  /\ mmPc = "idle" /\ mmMode = "none" /\ mmFile = <<>>
  /\ mmReader = NewReader(<<>>, "file") /\ mmAtoms = <<>> /\ mmLoc = NoLoc
  /\ mmMod = NoMod /\ mmModRet = "none" /\ mmStatus = "none"
  /\ mmOut = <<>> /\ mmWrites = <<>>

\* ----------------------------------------- ReadAtom then WriteAtom

ElstIdle ==
  /\ ePc = "idle" /\ eAtom = NullAtom /\ eN = 0
  /\ eOut = NoWrite /\ eBack = NoRead

NoInject == [kind |-> "none", mode |-> MONO, bytes |-> <<>>,
             status |-> "none", before |-> NullAtom]

InjectIdle == iMoov = NullAtom /\ iN = 0 /\ iLast = NoInject

CoreIdle == RTIdle /\ TreeIdle /\ StcoIdle /\ MMIdle
PopulateIdle == pPc = "idle" /\ pIndices = <<>> /\ pAtom = NullAtom

SteadyIdle == stPeriod = 0 /\ stPhase = "idle" /\ stGets = 0

NoDelayedCall ==
  [kind |-> "none", delta_time_s |-> 0, available |-> FALSE,
   before |-> NewDelayed(0), log |-> <<>>]

DelayedIdle ==
  /\ dl = NewDelayed(0) /\ dlN = 0 /\ dlLog = <<>> /\ dlLast = NoDelayedCall

FilterIdle ==
  /\ flt = NewFilter(0) /\ fN = 0 /\ fLast = NoFilterCall
  /\ fHist = NoFilterHistory /\ fPhase = "idle"

DetectorIdle ==
  /\ det = NewDetector /\ dNow = 0 /\ dN = 0
  /\ dLast = NoDetectorCall /\ dHist = NoHistory
  /\ SteadyIdle

ExtIdle ==
  ElstIdle /\ InjectIdle /\ PopulateIdle /\ DetectorIdle /\ DelayedIdle
  /\ FilterIdle

RTInit ==
  /\ rtPc = "start"
  /\ \E s \in RTInputs, k \in StreamKinds : rtIn = NewReader(s, k)
  /\ rtRes = NoRead
  /\ rtOut = NoWrite
  /\ rtTree = NoTree /\ rtAgain = NoWrite
  /\ TreeIdle /\ StcoIdle /\ MMIdle /\ ExtIdle

\* std::unique_ptr<Atom> atom = ReadAtom(&reader)
RTRead ==
  /\ rtPc = "start"
  /\ rtRes' = ReadAtom(rtIn)
  /\ rtTree' = [a |-> rtRes'.atom, src |-> rtRes'.r, ok |-> rtRes'.ok]
  /\ rtPc' = "read"
  /\ UNCHANGED <<rtIn, rtOut, rtAgain, treeVars, stcoVars, mmVars,
               extVars>>

\* WriteAtom(*atom, &writer) on the atom ReadAtom returned.
RTWrite ==
  /\ rtPc = "read"
  /\ rtRes.ok
  /\ rtOut' = WriteAtom(rtRes.atom, rtRes.r)
  /\ rtTree' = WriteAtomEffect(rtTree.a, rtTree.src)
  /\ rtPc' = "written"
  /\ UNCHANGED <<rtIn, rtRes, rtAgain, treeVars, stcoVars, mmVars,
               extVars>>

\* WriteAtom(*atom, &writer) once more, on the atom as the first call left
\* it and into a new writer.
RTWriteAgain ==
  /\ rtPc = "written"
  /\ rtAgain' = WriteAtom(rtTree.a, rtTree.src)
  /\ rtTree' = WriteAtomEffect(rtTree.a, rtTree.src)
  /\ rtPc' = "rewritten"
  /\ UNCHANGED <<rtIn, rtRes, rtOut, treeVars, stcoVars, mmVars,
               extVars>>

RTNext == RTRead \/ RTWrite \/ RTWriteAgain

SpecRT == RTInit /\ [][RTNext]_vars

\* ------------------------------------------------ mutations of a tree

RECURSIVE TreePaths(_)
TreePaths(a) ==
  {<<>>} \cup UNION { { <<i>> \o q : q \in TreePaths(a.kids[i]) }
                      : i \in 1..Len(a.kids) }

\* The tree ReadAtom builds of a byte string.
TreeParse(s) == ReadAtom(NewReader(s, "memory")).atom

\* Payload bytes of the large unknown atom: with its header it still fits a
\* 32-bit size, with a sibling it does not.
TreeBigPayload == UINT32_MAX - 20

\* AtomTRAK::AtomTRAK(): AtomTRAK(0, 0, kType) and Update().
NewTrak == UpdateSize(NewAtom(0, 0, T_trak, "AtomTRAK"))

\* Trees read from bytes, and a freshly constructed track.
TreeRoots ==
  { TreeParse(Box(T_moov, Box(T_trak, StcoBox(<<3>>)) \o Box(T_udta, <<7, 8, 9>>))),
    TreeParse(Box(T_trak, Box(T_udta, <<7, 8, 9>>) \o <<0, 0, 0, 0>>)),
    NewTrak }

TreeNewKids ==
  { TreeParse(Box(T_free, <<>>)), TreeParse(SdtpBox(<<32, 24>>)),
    TreeParse(Box(T_mdat, Zeros(TreeBigPayload))) }

\* Mutations made on one tree.
MaxTreeOps == 2

TreeInit ==
  /\ tree \in TreeRoots
  /\ tN = 0
  /\ tLast = NoMutation
  /\ RTIdle /\ StcoIdle /\ MMIdle /\ ExtIdle

TreeStep(path, op) ==
  LET u == Update(tree, path, op) IN
  /\ tN < MaxTreeOps
  /\ tree' = u.a
  /\ tN' = tN + 1
  /\ tLast' = [path |-> path, changed |-> u.changed, kind |-> op.kind,
               index |-> IF op.kind \in {"AddChildAt", "DeleteChild"}
                           THEN op.index ELSE 0 - 1,
               ds0 |-> AtomAt(tree, path).ds, hs0 |-> AtomAt(tree, path).hs,
               prev |-> [f \in DOMAIN NoCall |-> tLast[f]]]
  /\ UNCHANGED <<rtVars, stcoVars, mmVars,
               extVars>>

TAddChild ==
  \E path \in TreePaths(tree), c \in TreeNewKids :
    TreeStep(path, [kind |-> "AddChild", child |-> c])

TAddChildAt ==
  \E path \in TreePaths(tree), c \in TreeNewKids, i \in (0 - 1)..2 :
    TreeStep(path, [kind |-> "AddChildAt", child |-> c, index |-> i])

TDeleteChild ==
  \E path \in TreePaths(tree), i \in (0 - 1)..1 :
    TreeStep(path, [kind |-> "DeleteChild", index |-> i])

TSetNullTerminator ==
  \E path \in TreePaths(tree), v \in BOOLEAN :
    TreeStep(path, [kind |-> "set_has_null_terminator", value |-> v])

TreeNext == TAddChild \/ TAddChildAt \/ TDeleteChild \/ TSetNullTerminator

SpecTree == TreeInit /\ [][TreeNext]_vars

\* ------------------------------------- AdjustChunkOffsets then WriteAtom

\* Offset tables: empty, small, and with an offset close to the largest
\* 32-bit value.
StcoTables == { <<>>, <<3>>, <<20, 30>>, <<UINT32_MAX - 5, 8>> }

StcoInputs ==
  { StcoBox(t) : t \in StcoTables } \cup { Co64Box(t) : t \in StcoTables }
  \cup { Box(T_stco, <<0, 0, 0, 0>> \o BE(1, 4) \o BE(UINT32_MAX - 5, 4)
                      \o <<0, 0, 0, 0>>) }

StcoAdjustments == { 10, 0 - 10, 4, 0 - 4, UINT32_MAX }

\* Calls of AdjustChunkOffsets on one atom.
MaxAdjust == 3

StcoInit ==
  /\ sPc = "read"
  /\ \E s \in StcoInputs : sAtom = TreeParse(s)
  /\ sAtom0 = sAtom
  /\ sD = 0 /\ sPeak = 0 /\ sN = 0
  /\ sOut = NoWrite
  /\ RTIdle /\ TreeIdle /\ MMIdle /\ ExtIdle

\* stco->AdjustChunkOffsets(adjustment)
SAdjust ==
  /\ sPc = "read" /\ sN < MaxAdjust
  /\ \E adjustment \in StcoAdjustments :
       /\ sAtom' = AdjustChunkOffsets(sAtom, adjustment)
       /\ sD' = sD + adjustment
       /\ sPeak' = Max(sPeak, sD + adjustment)
  /\ sN' = sN + 1
  /\ UNCHANGED <<sPc, sAtom0, sOut, rtVars, treeVars, mmVars,
               extVars>>

\* WriteAtom(*stco, &writer)
SWrite ==
  /\ sPc = "read"
  /\ sOut' = WriteAtom(sAtom, NewReader(<<>>, "memory"))
  /\ sPc' = "written"
  /\ UNCHANGED <<sAtom, sAtom0, sD, sPeak, sN, rtVars, treeVars, mmVars,
               extVars>>

StcoNext == SAdjust \/ SWrite

SpecStco == StcoInit /\ [][StcoNext]_vars

\* ------------------------------------------------------------ ModifyMoov

\* A track, with its sample table holding the given atoms.
TrakBox(tables) ==
  Box(T_trak, Box(T_mdia, Box(T_minf, Box(T_stbl, tables))))

\* The children of the moov atoms of the input files: one track, a track
\* with an offset close to the largest 32-bit value, two tracks, a track
\* and a user-data atom of 20 bytes, a track without chunk offsets, and a
\* track without a sample table.
MoovBodies ==
  { TrakBox(StcoBox(<<40, 60>>)),
    TrakBox(StcoBox(<<UINT32_MAX - 5>>)),
    TrakBox(Co64Box(<<70>>)) \o TrakBox(StcoBox(<<50>>)),
    TrakBox(StcoBox(<<40>>)) \o Box(T_udta, <<7, 8, 9, 1, 2, 3, 4, 5, 6, 7, 8, 9>>),
    TrakBox(<<>>),
    Box(T_trak, Box(T_mdia, Box(T_minf, <<>>))) }

\* moov with a 32-bit and with a 64-bit size.
MoovBoxes ==
  { Box(T_moov, b) : b \in MoovBodies } \cup { Box64(T_moov, b) : b \in MoovBodies }

FtypBox == Box(T_ftyp, <<1, 2, 3, 4>>)
MdatBox == Box(T_mdat, <<9, 8, 7, 6, 5>>)
UdtaBox == Box(T_udta, <<4, 4>>)

\* Sizes of the free atom that follows moov.
FreeSizes == {16, 24}

\* A top-level atom that does not parse: a chunk offset table that
\* announces two offsets and holds one (CheckNumberOfChunks fails).
BadBox == Box(T_stco, <<0, 0, 0, 0, 0, 0, 0, 2, 0, 0, 0, 1>>)

\* The input files: moov before mdat (alone, followed by a free atom, or
\* by another atom), moov after mdat (last, or followed by another atom),
\* files without moov or without mdat, and files with an atom that does
\* not parse, after moov and mdat or between them.
MMFiles ==
  UNION { { FtypBox \o m \o MdatBox,
            FtypBox \o m \o UdtaBox \o MdatBox,
            FtypBox \o MdatBox \o m,
            FtypBox \o MdatBox \o m \o UdtaBox,
            FtypBox \o m,
            FtypBox \o m \o MdatBox \o BadBox \o UdtaBox,
            FtypBox \o m \o BadBox \o MdatBox }
          \cup { FtypBox \o m \o Box(T_free, Zeros(f - 8)) \o MdatBox
                 : f \in FreeSizes }
          : m \in MoovBoxes }
  \cup { FtypBox \o MdatBox }

\* An AtomSDTP() populated with n frame descriptions.
NewSdtp(n) ==
  UpdateSize([NewAtom(8, 0, T_sdtp, "AtomSDTP") EXCEPT !.tab = [i \in 1..n |-> 24]])

\* The modifiers: leave moov as it is; return an error; add an sdtp atom of
\* n descriptions to the sample table of the first track (an error if
\* there is none); delete the udta child of moov; both of the last two.
Modifiers ==
  { [kind |-> "identity", n |-> 0], [kind |-> "fail", n |-> 0],
    [kind |-> "deleteUdta", n |-> 0], [kind |-> "replaceUdta", n |-> 4] }
  \cup { [kind |-> "addSdtp", n |-> n] : n \in {4, 12, 16} }

AddSdtp(moov, n) ==
  LET ts == tracks(moov) IN
  IF ts = <<>> \/ ~HasMinf(moov.kids[Head(ts)]) THEN [ok |-> FALSE, a |-> moov]
  ELSE LET sp == atom_stbl(moov.kids[Head(ts)]) IN
       IF sp = <<>> THEN [ok |-> FALSE, a |-> moov]
       ELSE [ok |-> TRUE,
             a |-> Update(moov, <<Head(ts)>> \o sp,
                          [kind |-> "AddChild", child |-> NewSdtp(n)]).a]

DeleteUdta(moov) ==
  LET i == FindChild(moov, "AtomDefault") IN
  IF i = 0 THEN moov ELSE DeleteChild(moov, i - 1)

\* modifier(moov)
ApplyModifier(moov, m) ==
  CASE m.kind = "identity" -> [ok |-> TRUE, a |-> moov]
    [] m.kind = "fail" -> [ok |-> FALSE, a |-> moov]
    [] m.kind = "addSdtp" -> AddSdtp(moov, m.n)
    [] m.kind = "deleteUdta" -> [ok |-> TRUE, a |-> DeleteUdta(moov)]
    [] m.kind = "replaceUdta" -> AddSdtp(DeleteUdta(moov), m.n)

MMInit ==
  /\ mmPc = "start"
  /\ mmMode \in {"rewrite", "inplace"}
  /\ mmFile \in MMFiles
  /\ mmReader = NewReader(mmFile, "file")
  /\ mmAtoms = <<>> /\ mmLoc = NoLoc
  /\ mmMod = NoMod /\ mmModRet = "none" /\ mmStatus = "none"
  /\ mmOut = <<>> /\ mmWrites = <<>>
  /\ RTIdle /\ TreeIdle /\ StcoIdle /\ ExtIdle

\* ModifyMoov and ModifyMoovInPlace down to the call of the modifier:
\* ReadAtoms, the two indices, the test for "Invalid video file" and the
\* positions and sizes taken before the update.
MMReadAtoms ==
  /\ mmPc = "start"
  /\ LET Located(ra, top_level_atoms, moov_index, mdat_index) ==
           /\ mmAtoms' = top_level_atoms
           /\ mmReader' = ra.r
           /\ IF InvalidVideoFile(moov_index, mdat_index)
                THEN /\ mmStatus' = "ERROR" /\ mmPc' = "done"
                     /\ mmLoc' = [mmLoc EXCEPT !.moov_index = moov_index,
                                               !.mdat_index = mdat_index]
                ELSE /\ mmStatus' = mmStatus /\ mmPc' = "located"
                     /\ mmLoc' =
                          [moov_index |-> moov_index, mdat_index |-> mdat_index,
                           mdat_position_before_update |->
                             GetAtomPosition(top_level_atoms, kMdatType),
                           size_before_update |-> ReaderSize(ra.r),
                           moov_position_before_update |->
                             GetAtomPosition(top_level_atoms, kMoovType),
                           moov_size_before_update |->
                             Size(top_level_atoms[moov_index + 1])]
         Read(ra) ==
           Located(ra, ra.atoms, GetAtomIndex(ra.atoms, kMoovType),
                   GetAtomIndex(ra.atoms, kMdatType))
     IN Read(ReadAtoms(mmReader))
  /\ UNCHANGED <<mmMode, mmFile, mmMod, mmModRet, mmOut, mmWrites,
                 rtVars, treeVars, stcoVars,
               extVars>>

\* RETURN_IF_FORMAT_ERROR(modifier(moov))
MMModifier ==
  /\ mmPc = "located"
  /\ \E m \in Modifiers :
       LET r == ApplyModifier(mmAtoms[mmLoc.moov_index + 1], m) IN
       /\ mmMod' = m
       /\ mmModRet' = IF r.ok THEN "OK" ELSE "ERROR"
       /\ IF r.ok
            THEN /\ mmAtoms' = [mmAtoms EXCEPT ![mmLoc.moov_index + 1] = r.a]
                 /\ mmPc' = "modified" /\ mmStatus' = mmStatus
            ELSE /\ mmAtoms' = mmAtoms
                 /\ mmPc' = "done" /\ mmStatus' = "ERROR"
  /\ UNCHANGED <<mmMode, mmFile, mmReader, mmLoc, mmOut, mmWrites,
                 rtVars, treeVars, stcoVars,
               extVars>>

\* The rest of ModifyMoov: the swap, delta, AdjustTrackOffsets and the
\* output of all the atoms.  Every track of the input files has an mdia
\* with a minf.
MMRewrite ==
  /\ mmPc = "modified" /\ mmMode = "rewrite"
  /\ LET moov_index == mmLoc.moov_index
         mdat_index == mmLoc.mdat_index
         swapped == IF moov_index > mdat_index
                      THEN SwapAtoms(mmAtoms, moov_index, mdat_index)
                      ELSE mmAtoms
         moov_at == IF moov_index > mdat_index THEN mdat_index ELSE moov_index
         moov == swapped[moov_at + 1]
         mdat_position_after_update == GetAtomPosition(swapped, kMdatType)
         delta == mdat_position_after_update - mmLoc.mdat_position_before_update
         adj == IF delta # 0 THEN AdjustTrackOffsets(moov, delta)
                ELSE [ok |-> TRUE, a |-> moov]
         atoms == [swapped EXCEPT ![moov_at + 1] = adj.a]
         w == WriteAtomList(atoms, mmReader)
     IN /\ \A t \in 1..Len(moov.kids) :
             moov.kids[t].cls = "AtomTRAK" => HasMinf(moov.kids[t])
        /\ mmAtoms' = atoms
        /\ IF ~adj.ok THEN mmOut' = mmOut /\ mmStatus' = "ERROR"
           ELSE /\ mmOut' = w.out
                /\ mmStatus' = IF w.ok THEN "OK" ELSE "ERROR"
  /\ mmPc' = "done"
  /\ UNCHANGED <<mmMode, mmFile, mmReader, mmLoc, mmMod, mmModRet, mmWrites,
                 rtVars, treeVars, stcoVars,
               extVars>>

\* delta of ModifyMoovInPlace
InPlaceDelta == Size(mmAtoms[mmLoc.moov_index + 1]) - mmLoc.moov_size_before_update

\* free_space_after_moov of ModifyMoovInPlace
FreeSpaceAfterMoov ==
  LET next == mmAtoms[mmLoc.moov_index + 2] IN
  IF next.type = kFreeType THEN Size(next) ELSE 0

\* The moov atom alone, written by WriteAtomsInPlace at a position.
MoovInPlace(output_position) ==
  WriteAtomsInPlace(mmAtoms, mmLoc.moov_index, mmLoc.moov_index + 1,
                    output_position, mmReader)

\* The writes of a return of ModifyMoovInPlace: those of WriteAtomsInPlace
\* and, when it succeeded, those that follow it.
InPlaceReturn(w, then) ==
  /\ mmWrites' = IF w.ok THEN w.writes \o then ELSE w.writes
  /\ mmStatus' = IF w.abort THEN "ABORT" ELSE IF w.ok THEN "OK" ELSE "ERROR"
  /\ mmPc' = "done"
  /\ UNCHANGED <<mmMode, mmFile, mmReader, mmAtoms, mmLoc, mmMod, mmModRet,
                 mmOut, rtVars, treeVars, stcoVars,
               extVars>>

\* The position of the writer after the writes ws.
PosAfter(ws) == ws[Len(ws)].pos + Len(ws[Len(ws)].bytes)

\* ModifyMoovInPlace, moov_index > mdat_index
MMInPlaceAfterMdat ==
  /\ mmPc = "modified" /\ mmMode = "inplace"
  /\ mmLoc.moov_index > mmLoc.mdat_index
  /\ LET w == WriteAtomsInPlace(mmAtoms, mmLoc.moov_index, Len(mmAtoms),
                                 mmLoc.moov_position_before_update, mmReader)
     IN InPlaceReturn(w,
          IF w.ok /\ InPlaceDelta < 0
            THEN <<[pos |-> PosAfter(w.writes),
                    bytes |-> WriteFreeSpace(Max(0 - InPlaceDelta,
                                                 kFreeAtomHeaderSize))]>>
            ELSE <<>>)

\* ModifyMoovInPlace, delta == free_space_after_moov
MMInPlaceExact ==
  /\ mmPc = "modified" /\ mmMode = "inplace"
  /\ mmLoc.moov_index < mmLoc.mdat_index
  /\ InPlaceDelta = FreeSpaceAfterMoov
  /\ InPlaceReturn(MoovInPlace(mmLoc.moov_position_before_update), <<>>)

\* ModifyMoovInPlace, delta + kFreeAtomHeaderSize <= free_space_after_moov
MMInPlaceAddFree ==
  /\ mmPc = "modified" /\ mmMode = "inplace"
  /\ mmLoc.moov_index < mmLoc.mdat_index
  /\ InPlaceDelta # FreeSpaceAfterMoov
  /\ InPlaceDelta + kFreeAtomHeaderSize <= FreeSpaceAfterMoov
  /\ LET w == MoovInPlace(mmLoc.moov_position_before_update) IN
     InPlaceReturn(w,
       IF w.ok
         THEN <<[pos |-> PosAfter(w.writes),
                 bytes |-> WriteFreeSpace(FreeSpaceAfterMoov - InPlaceDelta)]>>
         ELSE <<>>)

\* ModifyMoovInPlace, "Move moov to the end"
MMInPlaceMoveToEnd ==
  /\ mmPc = "modified" /\ mmMode = "inplace"
  /\ mmLoc.moov_index < mmLoc.mdat_index
  /\ InPlaceDelta # FreeSpaceAfterMoov
  /\ InPlaceDelta + kFreeAtomHeaderSize > FreeSpaceAfterMoov
  /\ InPlaceReturn(MoovInPlace(mmLoc.size_before_update),
       <<[pos |-> mmLoc.moov_position_before_update,
          bytes |-> WriteFreeSpace(mmLoc.moov_size_before_update)]>>)

MMNext ==
  \/ MMReadAtoms \/ MMModifier \/ MMRewrite
  \/ MMInPlaceAfterMdat \/ MMInPlaceExact \/ MMInPlaceAddFree
  \/ MMInPlaceMoveToEnd

SpecMM == MMInit /\ [][MMNext]_vars

\* ------------------------------------------------------------- claims

\* ------------------------------------------------------- edit lists

\* Entries: within the 32-bit bounds of version 0 (one with a negative
\* media_time and rate), and with a segment_duration or a media_time just
\* outside them.
ElstEntries ==
  { Entry(5, 0, 1, 0), Entry(7, 0 - 1, 0 - 1, 0), Entry(UINT32_MAX, INT32_MAX, 1, 0),
    Entry(UINT32_MAX + 1, 3, 1, 0), Entry(6, INT32_MAX + 1, 1, 0),
    Entry(6, INT32_MIN - 1, 1, 0) }

\* Calls of AddEntry and ReplaceEntry on one atom.
MaxElstOps == 2

ElstInit ==
  /\ ePc = "build" /\ eAtom = NewElst /\ eN = 0
  /\ eOut = NoWrite /\ eBack = NoRead
  /\ CoreIdle /\ InjectIdle /\ PopulateIdle /\ DetectorIdle /\ DelayedIdle
  /\ FilterIdle

EAddEntry ==
  /\ ePc = "build" /\ eN < MaxElstOps
  /\ \E entry \in ElstEntries : eAtom' = AddEntry(eAtom, entry)
  /\ eN' = eN + 1
  /\ UNCHANGED <<ePc, eOut, eBack, elstRest>>

EReplaceEntry ==
  /\ ePc = "build" /\ eN < MaxElstOps
  /\ \E i \in 0..(Len(eAtom.tab) - 1), entry \in ElstEntries :
       eAtom' = ReplaceEntry(eAtom, i, entry)
  /\ eN' = eN + 1
  /\ UNCHANGED <<ePc, eOut, eBack, elstRest>>

EWrite ==
  /\ ePc = "build"
  /\ eOut' = WriteAtom(eAtom, NewReader(<<>>, "memory"))
  /\ ePc' = "written"
  /\ UNCHANGED <<eAtom, eN, eBack, elstRest>>

ERead ==
  /\ ePc = "written" /\ eOut.ok
  /\ eBack' = ReadAtom(NewReader(eOut.out, "memory"))
  /\ ePc' = "read"
  /\ UNCHANGED <<eAtom, eN, eOut, elstRest>>

ElstNext == EAddEntry \/ EReplaceEntry \/ EWrite \/ ERead

SpecElst == ElstInit /\ [][ElstNext]_vars


\* ------------------------------------------------ tracks and injections

\* AtomHDLR::GetTrackMediaType, for the subtypes the trees here carry.
GetTrackMediaType(hdlr) ==
  CASE hdlr.tab = kVisualSubtype -> "VISUAL_MEDIA_TYPE"
    [] hdlr.tab = kSoundSubtype -> "SOUND_MEDIA_TYPE"
    [] hdlr.tab = kMetaSubtype -> "META_MEDIA_TYPE"
    [] OTHER -> "UNKNOWN_MEDIA_TYPE"

\* AtomTRAK::track_type: FindNamedChildren sets track_type_ from the hdlr of
\* the mdia; without one it keeps UNKNOWN_MEDIA_TYPE of the constructor.
track_type(trak) ==
  LET Hdlr(mdia, h) ==
        IF h = 0 THEN "UNKNOWN_MEDIA_TYPE"
        ELSE GetTrackMediaType(mdia.kids[h])
      Mdia(m) ==
        IF m = 0 THEN "UNKNOWN_MEDIA_TYPE"
        ELSE Hdlr(trak.kids[m], FindChild(trak.kids[m], "AtomHDLR"))
  IN Mdia(FindChild(trak, "AtomMDIA"))

\* AtomTRAK::visual_sample_entry: the path from the trak to the first
\* VisualSampleEntry of its stsd, <<>> for nullptr (what the constructor
\* leaves in visual_sample_entry_ when FindNamedChildren returns early).
visual_sample_entry(trak) ==
  LET Vse(p, v) == IF v = 0 THEN <<>> ELSE p \o <<v>>
      Stsd(p, sd) ==
        IF sd = 0 THEN <<>>
        ELSE Vse(p \o <<sd>>,
                 FindChild(AtomAt(trak, p \o <<sd>>), "VisualSampleEntry"))
      Stbl(p) ==
        IF p = <<>> THEN <<>>
        ELSE Stsd(p, FindChild(AtomAt(trak, p), "AtomSTSD"))
  IN IF HasMinf(trak) THEN Stbl(atom_stbl(trak)) ELSE <<>>

\* AtomMOOV::GetFirstVideoTrack: the index of the track, 0 for nullptr.
GetFirstVideoTrack(moov) ==
  LET Then(vs) == IF vs = <<>> THEN 0 ELSE Head(vs) IN
  Then(SelectSeq(tracks(moov),
                 LAMBDA t : track_type(moov.kids[t]) = "VISUAL_MEDIA_TYPE"))

\* DeleteChildren<ATOM> (atom_helpers.h) on the atom at path below root:
\* from the last child down to the first, DeleteChild of those of the class.
RECURSIVE DeleteChildrenFrom(_, _, _, _)
DeleteChildrenFrom(root, path, cls, i) ==
  IF i < 0 THEN root
  ELSE IF AtomAt(root, path).kids[i + 1].cls = cls
    THEN DeleteChildrenFrom(
           Update(root, path, [kind |-> "DeleteChild", index |-> i]).a,
           path, cls, i - 1)
    ELSE DeleteChildrenFrom(root, path, cls, i - 1)

DeleteChildren(root, path, cls) ==
  DeleteChildrenFrom(root, path, cls, Len(AtomAt(root, path).kids) - 1)

\* FindIndex (atom_helpers.h): the 0-based index of the child that is at
\* the 1-based position child of parent, -1 when there is none.
FindIndexAfter(parent, child) ==
  IF child \in 1..Len(parent.kids) THEN child ELSE 0 - 1

FindIndex(parent, child) ==
  IF child \in 1..Len(parent.kids) THEN child - 1 ELSE 0 - 1

\* AtomST3D::AtomST3D()
NewSt3d == UpdateSize([NewAtom(0, 0, T_st3d, "AtomST3D") EXCEPT !.tab = <<MONO>>])

\* AtomST3D::set_stereo_mode
set_stereo_mode(a, mode) == [a EXCEPT !.tab = <<mode>>]

\* AtomCAMM::AtomCAMM(): tab is reserved_ followed by data_reference_index_.
NewCamm ==
  UpdateSize([NewAtom(0, 0, T_camm, "AtomCAMM")
                EXCEPT !.tab = Zeros(kReservedSize) \o <<0>>])

\* AtomEDTS::AtomEDTS()
NewEdts == UpdateSize(NewAtom(0, 0, T_edts, "AtomEDTS"))

\* InjectSphericalMetadataToMoov (spherical_inject.cc) with v1_metadata =
\* nullptr; sv3d = NullAtom stands for nullptr.
InjectSphericalMetadataToMoov(stereo_mode, sv3d, moov) ==
  LET Error == [status |-> "FILE_FORMAT_ERROR", moov |-> moov]
      Add(p, m) ==
        [status |-> "OK",
         moov |-> Update(Update(m, p, [kind |-> "AddChild",
                                       child |-> set_stereo_mode(NewSt3d,
                                                                 stereo_mode)]).a,
                         p, [kind |-> "AddChild", child |-> sv3d]).a]
      Entry3d(t, vse) ==
        IF vse = <<>> THEN Error
        ELSE Add(<<t>> \o vse,
                 DeleteChildren(DeleteChildren(moov, <<t>> \o vse, "AtomST3D"),
                                <<t>> \o vse, "AtomSV3D"))
      Track(t) ==
        IF t = 0 THEN Error
        ELSE IF sv3d # NullAtom
          THEN Entry3d(t, visual_sample_entry(moov.kids[t]))
          ELSE [status |-> "OK", moov |-> moov]
  IN Track(GetFirstVideoTrack(moov))

\* InjectProjectionMetadataToMoov (spherical_inject.cc): dynamic_cast of
\* the atom read to AtomSV3D* is nullptr for an atom of another class.
InjectProjectionMetadataToMoov(stereo_mode, serialized_sv3d, moov) ==
  LET Then(sv3d) ==
        IF ~sv3d.ok THEN [status |-> "FILE_FORMAT_ERROR", moov |-> moov]
        ELSE InjectSphericalMetadataToMoov(
               stereo_mode,
               IF sv3d.atom.cls = "AtomSV3D" THEN sv3d.atom ELSE NullAtom,
               moov)
  IN Then(ReadAtom(NewReader(serialized_sv3d, "memory")))

\* FindStsdOfFirstMettTrack (replace_mett_with_camm.cc).  A meta track with
\* an mdia and no minf has an stbl_ that nothing initialized: uninit is
\* what it holds, "null" (the track is passed over) or "wild".
RECURSIVE FindStsdOfFirstMettTrackFrom(_, _, _)
FindStsdOfFirstMettTrackFrom(moov, ts, uninit) ==
  LET Stsd(p, sd) ==
        IF sd = 0 THEN [kind |-> "null", path |-> <<>>]
        ELSE [kind |-> "stsd", path |-> p \o <<sd>>]
      Stbl(t, stbl) ==
        IF stbl = <<>>
          THEN FindStsdOfFirstMettTrackFrom(moov, Tail(ts), uninit)
          ELSE Stsd(<<t>> \o stbl,
                    FindChild(AtomAt(moov, <<t>> \o stbl), "AtomSTSD"))
      Track(t) ==
        IF track_type(moov.kids[t]) # "META_MEDIA_TYPE"
          THEN FindStsdOfFirstMettTrackFrom(moov, Tail(ts), uninit)
        ELSE IF ~HasMinf(moov.kids[t])
          THEN (IF uninit = "null"
                  THEN FindStsdOfFirstMettTrackFrom(moov, Tail(ts), uninit)
                  ELSE [kind |-> "wild", path |-> <<>>])
        ELSE Stbl(t, atom_stbl(moov.kids[t]))
  IN IF ts = <<>> THEN [kind |-> "null", path |-> <<>>] ELSE Track(Head(ts))

FindStsdOfFirstMettTrack(moov, uninit) ==
  FindStsdOfFirstMettTrackFrom(moov, tracks(moov), uninit)

\* ReplaceMettWithCamm (replace_mett_with_camm.cc).  A wild stbl_ is
\* dereferenced by FindChild: the call does not return ("crash").
ReplaceMettWithCamm(moov, uninit) ==
  LET Error == [status |-> "FILE_FORMAT_ERROR", moov |-> moov]
      Replace(p) ==
        [status |-> "OK",
         moov |-> Update(Update(moov, p, [kind |-> "DeleteChild",
                                          index |-> 0]).a,
                         p, [kind |-> "AddChild", child |-> NewCamm]).a]
      Stsd(f) ==
        IF f.kind = "wild" THEN [status |-> "crash", moov |-> moov]
        ELSE IF f.kind = "null" THEN Error
        ELSE IF Len(AtomAt(moov, f.path).kids) # 1 THEN Error
        ELSE IF AtomAt(moov, f.path).kids[1].type # kMettType THEN Error
        ELSE Replace(f.path)
  IN Stsd(FindStsdOfFirstMettTrack(moov, uninit))

\* The body of the loop of InjectEdtsToMoov for the track at index t.
InjectEdtsToTrak(moov, t) ==
  LET trak == moov.kids[t]
      Error == [status |-> "FILE_FORMAT_ERROR", moov |-> moov]
      Insert(m, edts, mdia) ==
        [status |-> "OK",
         moov |-> Update(m, <<t>>,
                         [kind |-> "AddChildAt", child |-> edts,
                          index |-> FindIndex(m.kids[t], mdia)]).a]
      Create(mdia, tkhd) ==
        IF tkhd = 0 THEN Error
        ELSE Insert(moov,
                    AddChild(NewEdts,
                             AddEntry(NewElst,
                                      Entry(trak.kids[tkhd].tab[1], 0, 1, 0))),
                    mdia)
      Edts(mdia, e) ==
        IF e # 0
          THEN Insert(Update(moov, <<t>>,
                             [kind |-> "DeleteChild",
                              index |-> FindIndex(trak, e)]).a,
                      trak.kids[e], IF e < mdia THEN mdia - 1 ELSE mdia)
          ELSE Create(mdia, FindChild(trak, "AtomTKHD"))
      Mdia(mdia) ==
        IF mdia = 0 THEN Error ELSE Edts(mdia, FindChild(trak, "AtomEDTS"))
  IN Mdia(FindChild(trak, "AtomMDIA"))

\* InjectEdtsToMoov (edts_inject.cc): the loop over moov->tracks().
RECURSIVE InjectEdtsToTracks(_, _)
InjectEdtsToTracks(moov, ts) ==
  LET Then(r) ==
        IF r.status # "OK" THEN r ELSE InjectEdtsToTracks(r.moov, Tail(ts))
  IN IF ts = <<>> THEN [status |-> "OK", moov |-> moov]
     ELSE Then(InjectEdtsToTrak(moov, Head(ts)))

InjectEdtsToMoov(moov) == InjectEdtsToTracks(moov, tracks(moov))

\* ------------------------------------------------------- moov trees

\* a with kids added one by one by AddChild.
RECURSIVE WithChildren(_, _)
WithChildren(a, kids) ==
  IF kids = <<>> THEN a ELSE WithChildren(AddChild(a, Head(kids)), Tail(kids))

\* A container atom as its default constructor makes it, and its children.
Container(type, cls, kids) ==
  WithChildren(UpdateSize(NewAtom(0, 0, type, cls)), kids)

\* AtomHDLR::AtomHDLR() and set_component_subtype
NewHdlr(subtype) ==
  UpdateSize([NewAtom(0, 0, T_hdlr, "AtomHDLR") EXCEPT !.tab = subtype])

\* AtomTKHD::AtomTKHD() and set_duration
NewTkhd(d) ==
  LET a == UpdateSize([NewAtom(0, 0, T_tkhd, "AtomTKHD") EXCEPT !.tab = <<d>>])
  IN IF d > UINT32_MAX THEN set_version(a, 1) ELSE a

\* Serialized atoms handed to InjectProjectionMetadataToMoov: an sv3d box,
\* a box of another type, and a box cut short.
Sv3dBytes == Box(T_sv3d, Box(T_proj, <<1, 2>>))
OldSv3dBytes == Box(T_sv3d, Box(T_proj, <<9>>))
SerializedInputs ==
  { Sv3dBytes, Box(T_free, <<1, 2>>),
    SubSeq(Sv3dBytes, 1, Len(Sv3dBytes) - 1) }

StereoModes == {MONO, LEFT_RIGHT}

Parsed(bytes) == ReadAtom(NewReader(bytes, "memory")).atom

Mett == NewAtom(kMinSizeofAtomHeader, 4, T_mett, "AtomDefault")

Stsd(kids) == Container(T_stsd, "AtomSTSD", kids)
Stbl(kids) == Container(T_stbl, "AtomSTBL", kids)
Minf(kids) == Container(T_minf, "AtomMINF", kids)
Mdia(subtype, kids) ==
  Container(T_mdia, "AtomMDIA", <<NewHdlr(subtype)>> \o kids)
Avc1(kids) == Container(T_avc1, "VisualSampleEntry", kids)
Trak(kids) == Container(T_trak, "AtomTRAK", kids)
OldEdts == AddChild(NewEdts, AddEntry(NewElst, Entry(3, 1, 1, 0)))

\* Media of a track: an mdia of the subtype with minf, stbl and an stsd
\* holding the entries.
Media(subtype, entries) ==
  Mdia(subtype, <<Minf(<<Stbl(<<Stsd(entries)>>)>>)>>)

\* Tracks: video tracks with and without earlier st3d and sv3d atoms, an
\* edts before or after the mdia, a tkhd; meta tracks whose stsd holds one
\* mett, a camm, two metts, and meta tracks without stsd, stbl or minf; a
\* sound track; a track without mdia.
VideoTraks ==
  { Trak(<<NewTkhd(5), Media(kVisualSubtype, <<Avc1(<<>>)>>)>>),
    Trak(<<NewTkhd(5),
           Media(kVisualSubtype,
                 <<Avc1(<<set_stereo_mode(NewSt3d, TOP_BOTTOM),
                          Parsed(OldSv3dBytes), Mett, NewSt3d>>)>>),
           OldEdts>>),
    Trak(<<OldEdts, NewTkhd(5),
           Mdia(kVisualSubtype, <<Minf(<<Stbl(<<>>)>>)>>)>>),
    Trak(<<Media(kVisualSubtype, <<Avc1(<<Parsed(OldSv3dBytes)>>)>>)>>) }

MetaTraks ==
  { Trak(<<NewTkhd(UINT32_MAX + 1), Media(kMetaSubtype, <<Mett>>)>>),
    Trak(<<NewTkhd(5), Media(kMetaSubtype, <<NewCamm>>)>>),
    Trak(<<NewTkhd(5), Media(kMetaSubtype, <<Mett, Mett>>)>>),
    Trak(<<NewTkhd(5), Mdia(kMetaSubtype, <<Minf(<<Stbl(<<>>)>>)>>)>>),
    Trak(<<NewTkhd(5), Mdia(kMetaSubtype, <<Minf(<<>>)>>)>>),
    Trak(<<NewTkhd(5), Mdia(kMetaSubtype, <<>>)>>) }

OtherTraks ==
  { Trak(<<NewTkhd(5), Media(kSoundSubtype, <<>>)>>), Trak(<<NewTkhd(5)>>) }

InjectTraks == VideoTraks \cup MetaTraks \cup OtherTraks

\* The tracks that come first in the trees of two tracks.
LeadTraks ==
  { Trak(<<NewTkhd(5), Media(kVisualSubtype, <<Avc1(<<>>)>>)>>),
    Trak(<<NewTkhd(5), Media(kSoundSubtype, <<>>)>>),
    Trak(<<NewTkhd(5), Mdia(kMetaSubtype, <<Minf(<<>>)>>)>>),
    Trak(<<NewTkhd(5), Mdia(kMetaSubtype, <<>>)>>) }

InjectMoovs ==
  { Container(T_moov, "AtomMOOV", <<t>>) : t \in InjectTraks }
  \cup { Container(T_moov, "AtomMOOV", <<a, b>>) :
           a \in LeadTraks, b \in InjectTraks }

\* What an uninitialized stbl_ can hold.
UninitOutcomes == {"null", "wild"}

\* Calls made on one tree.
MaxInjectOps == 2

InjectInit ==
  /\ iMoov \in InjectMoovs /\ iN = 0 /\ iLast = NoInject
  /\ CoreIdle /\ ElstIdle /\ PopulateIdle /\ DetectorIdle /\ DelayedIdle
  /\ FilterIdle

InjectCall(kind, mode, bytes, r) ==
  /\ iN < MaxInjectOps /\ iLast.status # "crash"
  /\ iMoov' = r.moov
  /\ iLast' = [kind |-> kind, mode |-> mode, bytes |-> bytes,
               status |-> r.status, before |-> iMoov]
  /\ iN' = iN + 1
  /\ UNCHANGED injRest

IInjectProjection ==
  \E mode \in StereoModes, bytes \in SerializedInputs :
    InjectCall("InjectProjectionMetadataToMoov", mode, bytes,
               InjectProjectionMetadataToMoov(mode, bytes, iMoov))

IReplaceMett ==
  \E uninit \in UninitOutcomes :
    InjectCall("ReplaceMettWithCamm", MONO, <<>>,
               ReplaceMettWithCamm(iMoov, uninit))

IInjectEdts ==
  InjectCall("InjectEdtsToMoov", MONO, <<>>, InjectEdtsToMoov(iMoov))

InjectNext == IInjectProjection \/ IReplaceMett \/ IInjectEdts

SpecInject == InjectInit /\ [][InjectNext]_vars


\* ------------------------------------------------- sdtp from key frames

\* The loop of AtomSDTP::PopulateFromKeyFrameIndices from i on; the
\* subtraction is one of uint32_t.
RECURSIVE PopulateFrom(_, _, _, _, _)
PopulateFrom(indices, last_index, i, next_key_frame_index, frame_description) ==
  IF i >= last_index THEN frame_description
  ELSE IF i = (indices[next_key_frame_index + 1] - 1) % (UINT32_MAX + 1)
    THEN PopulateFrom(indices, last_index, i + 1, next_key_frame_index + 1,
                      Append(frame_description, kIFrameDescription))
    ELSE PopulateFrom(indices, last_index, i + 1, next_key_frame_index,
                      Append(frame_description, kPFrameDescription))

\* AtomSDTP::PopulateFromKeyFrameIndices, for a list that is not empty.
PopulateFromKeyFrameIndices(a, indices) ==
  UpdateSize([a EXCEPT !.tab =
                PopulateFrom(indices, indices[Len(indices)], 0, 0, <<>>)])

\* Key-frame lists: up to MaxKeyFrames indices out of 1..MaxFrame, in any
\* order and with repetitions.
MaxKeyFrames == 3
MaxFrame == 5

KeyFrameLists ==
  UNION { [1..n -> 1..MaxFrame] : n \in 1..MaxKeyFrames }

PopulateInit ==
  /\ pPc = "new" /\ pIndices \in KeyFrameLists /\ pAtom = NewSdtp(0)
  /\ CoreIdle /\ ElstIdle /\ InjectIdle /\ DetectorIdle /\ DelayedIdle
  /\ FilterIdle

PPopulate ==
  /\ pPc = "new"
  /\ pAtom' = PopulateFromKeyFrameIndices(pAtom, pIndices)
  /\ pPc' = "populated"
  /\ UNCHANGED <<pIndices, popRest>>

PopulateNext == PPopulate

SpecPopulate == PopulateInit /\ [][PopulateNext]_vars

\* ------------------------------------------- detector: the calls

DetectorInit ==
  /\ det = NewDetector /\ dNow = 0 /\ dN = 0
  /\ dLast = NoDetectorCall /\ dHist = NoHistory
  /\ SteadyIdle /\ DelayedIdle
  /\ FilterIdle
  /\ CoreIdle /\ ElstIdle /\ InjectIdle /\ PopulateIdle

\* A call on the detector: what it does to the detector and to the record
\* of its calls.
DetectorStep(kind, timestamp_s, valid, ext, r, hist) ==
  /\ timestamp_s <= MaxTime /\ timestamp_s >= 0
  /\ det' = r.d
  /\ dLast' = [kind |-> kind, timestamp_s |-> timestamp_s, valid |-> valid,
               ext |-> ext, out |-> r.out,
               was_stationary |-> det.is_stationary,
               was_crossed |-> det.is_max_correction_threshold_crossed,
               was_initializing |-> IsInitializing(det)]
  /\ dNow' = Max(dNow, timestamp_s)
  /\ dN' = dN + 1
  /\ dHist' = hist
  /\ UNCHANGED detRest

DetectorCall(kind, timestamp_s, valid, ext, r, hist) ==
  /\ dN < MaxDetectorCalls
  /\ DetectorStep(kind, timestamp_s, valid, ext, r, hist)
  /\ UNCHANGED steadyVars

DAddAccel ==
  \E reading \in AccelReadings :
    DetectorCall("AddAccelMeasurement", dNow, TRUE, Zero3,
                 [d |-> AddAccelMeasurement(det, dNow, reading.low,
                                            reading.high),
                  out |-> Zero3],
                 [dHist EXCEPT !.evaluated = FALSE])

\* The history after a gyro sample: fed is the detector with the sample in
\* its filters, as Update sees it.  The timestamps need not increase: since
\* is the least timestamp of the updates of the run.
HistoryAfter(fed, evaluated, timestamp_s) ==
  IF ~evaluated THEN [dHist EXCEPT !.evaluated = FALSE]
  ELSE [evaluated |-> TRUE,
        entry |-> entry_condition(fed),
        entry_since |-> IF entry_condition(fed) /\ dHist.entry
                          THEN Min(dHist.entry_since, timestamp_s)
                          ELSE timestamp_s,
        no_exit |-> ~exit_condition(fed),
        no_exit_since |-> IF ~exit_condition(fed) /\ dHist.no_exit
                            THEN Min(dHist.no_exit_since, timestamp_s)
                            ELSE timestamp_s]

\* AddGyroMeasurement(sample, timestamp_s) with the filter outputs of reading
\* and bias: the result handed to DetectorStep and the history after it.
GyroResult(timestamp_s, reading, bias) ==
  [d |-> AddGyroMeasurement(det, reading.sample, timestamp_s, reading.low,
                            reading.high, bias),
   out |-> Zero3]

GyroDeltaT(timestamp_s) ==
  IF ~det.is_last_gyro_initialized THEN 0
  ELSE timestamp_s - det.last_gyro_timestamp

GyroHistory(timestamp_s, reading) ==
  LET first == ~det.is_last_gyro_initialized
      delta_t == GyroDeltaT(timestamp_s)
      fed == [det EXCEPT
                !.last_gyro_sample = IF first THEN reading.sample ELSE @,
                !.gyro_low_pass_filter =
                   LowPass_AddSampleData(@, reading.low, delta_t),
                !.gyro_high_pass_filter =
                   HighPass_AddSampleData(@, reading.high)]
  IN HistoryAfter(fed, delta_t >= 0 /\ FiltersReady(fed), timestamp_s)

DAddGyro ==
  \E s \in GyroSamples, bias \in BiasValues :
    DetectorCall("AddGyroMeasurement", dNow + s.step,
                 GyroDeltaT(dNow + s.step) >= 0, Zero3,
                 GyroResult(dNow + s.step, s.reading, bias),
                 GyroHistory(dNow + s.step, s.reading))

DGetCorrection ==
  \E ext \in ExternalBiases :
    DetectorCall("GetGyroBiasCorrection", dNow, TRUE, ext,
                 GetGyroBiasCorrection(det, ext, dNow),
                 [dHist EXCEPT !.evaluated = FALSE])

DReset ==
  DetectorCall("Reset", dNow, TRUE, Zero3,
               [d |-> DetectorReset(det), out |-> Zero3],
               [dHist EXCEPT !.evaluated = FALSE])

DetectorNext == DAddAccel \/ DAddGyro \/ DGetCorrection \/ DReset

SpecDetector == DetectorInit /\ [][DetectorNext]_vars

\* ---------------------------------------- detector: a steady stream
\* The stream of stationary_detector_test.cc (AddStationarySampleData):
\* a constant accel sample and a constant gyro sample with one timestamp,
\* then the next pair a sample period later.  The low-pass filters are fed
\* the difference of a sample and the one before it, which is zero, and stay
\* at zero; the bias filter is fed the constant gyro sample and stays at
\* it; a high-pass filter starts at its first sample and then takes
\* alpha * (sample - last + filtered), with last zero at the second sample
\* and the sample afterwards, and alpha = delta_t / (time_constant +
\* delta_t), in fixed point.

\* Norms of the samples: 9.8 m/s^2 and 0.001 rad/s.
kSteadyAccel == 98000
kSteadyGyro == 10

\* time_constant_ = 1 / (2 pi cutoff_frequency) at 1 Hz, and a tenth of a
\* second, in units of 10^-4 s.
kTimeConstant == 1592
kTenth == 1000

\* Sample periods of the stream, and the calls of GetGyroBiasCorrection
\* made along it.
Periods == {1, 5}
MaxGets == 4

\* External biases of these calls: within the bound of the constant gyro
\* sample, and beyond it.
SteadyBiases == {Zero3, <<0, 20, 0>>}

\* The 11 s of stationary_detector_test.cc (EnterStationaryState).
kElevenSeconds == 110

\* HighPassFilter::AddSampleData on a stream of one constant sample: the
\* norm of filtered_data_ after it.
HighPassOfSteady(f, sample, delta_t) ==
  IF ~f.init THEN sample
  ELSE (delta_t * kTenth * ((IF f.last_set THEN 0 ELSE sample) + f.v))
         \div (kTimeConstant + delta_t * kTenth)

SteadyInit ==
  /\ det = NewDetector /\ dNow = 0 /\ dN = 0
  /\ dLast = NoDetectorCall /\ dHist = NoHistory
  /\ stPeriod \in Periods /\ stPhase = "accel" /\ stGets = 0
  /\ CoreIdle /\ ElstIdle /\ InjectIdle /\ PopulateIdle /\ DelayedIdle
  /\ FilterIdle

SAddAccel ==
  /\ stPhase = "accel"
  /\ LET timestamp_s == IF det.is_last_accel_initialized
                          THEN dNow + stPeriod ELSE dNow
         delta_t == IF det.is_last_accel_initialized
                      THEN timestamp_s - det.last_accel_timestamp ELSE 0
     IN DetectorStep("AddAccelMeasurement", timestamp_s, TRUE, Zero3,
                     [d |-> AddAccelMeasurement(
                              det, timestamp_s, 0,
                              HighPassOfSteady(det.accel_high_pass_filter,
                                               kSteadyAccel, delta_t)),
                      out |-> Zero3],
                     [dHist EXCEPT !.evaluated = FALSE])
  /\ stPhase' = "gyro"
  /\ UNCHANGED <<stPeriod, stGets>>

SAddGyro ==
  /\ stPhase = "gyro"
  /\ LET reading ==
           [sample |-> kSteadyGyro, low |-> 0,
            high |-> HighPassOfSteady(det.gyro_high_pass_filter, kSteadyGyro,
                                      GyroDeltaT(dNow))]
     IN DetectorStep("AddGyroMeasurement", dNow, TRUE, Zero3,
                     GyroResult(dNow, reading, <<kSteadyGyro, 0, 0>>),
                     GyroHistory(dNow, reading))
  /\ stPhase' = "accel"
  /\ UNCHANGED <<stPeriod, stGets>>

SGetCorrection ==
  /\ stPhase = "accel" /\ stGets < MaxGets
  /\ \E ext \in SteadyBiases :
       DetectorStep("GetGyroBiasCorrection", dNow, TRUE, ext,
                    GetGyroBiasCorrection(det, ext, dNow),
                    [dHist EXCEPT !.evaluated = FALSE])
  /\ stGets' = stGets + 1
  /\ UNCHANGED <<stPeriod, stPhase>>

SteadyNext == SAddAccel \/ SAddGyro \/ SGetCorrection

SpecSteady == SteadyInit /\ [][SteadyNext]_vars

\* ------------------------------------------- a delayed low-pass filter
\* The filter of delayed_low_pass_filter_test.cc, DelayedLowPassFilter(10.,
\* 1.): times are in seconds here.  The n-th sample added has the value
\* <<n, 0, 0>>.
kTestDelay == 10
kTestStartup == 1
DelayDeltas == {0, 2, 3, 5}
MaxSamples == 6

DelayedInit ==
  /\ dl = NewDelayed(kTestStartup) /\ dlN = 0 /\ dlLog = <<>>
  /\ dlLast = NoDelayedCall
  /\ CoreIdle /\ ElstIdle /\ InjectIdle /\ PopulateIdle /\ DetectorIdle
  /\ FilterIdle

\* The log after a call that left the filter as r: the low-pass filter was
\* given a sample when it differs from what it was.
LogAfter(r) == IF r.lp # dl.lp THEN Append(dlLog, r.lp.v) ELSE dlLog

LAddSampleData ==
  /\ dlN < MaxSamples
  /\ \E delta_time_s \in DelayDeltas :
       LET Then(r) ==
             /\ dl' = r
             /\ dlLog' = LogAfter(r)
             /\ dlLast' = [kind |-> "AddSampleData",
                           delta_time_s |-> delta_time_s,
                           available |-> FALSE, before |-> dl,
                           log |-> dlLog]
       IN Then(Delayed_AddSampleDataOf(dl, <<dlN + 1, 0, 0>>, delta_time_s,
                                       kTestDelay))
  /\ dlN' = dlN + 1
  /\ UNCHANGED delayedRest

LGetFilteredData ==
  /\ dlLast' = [kind |-> "GetFilteredData", delta_time_s |-> 0,
                available |-> Delayed_GetFilteredData(dl, kTestDelay),
                before |-> dl, log |-> dlLog]
  /\ UNCHANGED <<dl, dlN, dlLog, delayedRest>>

LReset ==
  /\ dlLast.kind # "Reset"
  /\ dl' = Delayed_Reset(dl)
  /\ dlLast' = [kind |-> "Reset", delta_time_s |-> 0, available |-> FALSE,
                before |-> dl, log |-> dlLog]
  /\ UNCHANGED <<dlN, dlLog, delayedRest>>

DelayedNext == LAddSampleData \/ LGetFilteredData \/ LReset

SpecDelayed == DelayedInit /\ [][DelayedNext]_vars

\* ------------------------------------------ orientation filter: the calls
\* flt is the filter, fN the number of calls made, fLast the last call with
\* what it found (before) and fHist what the calls so far amount to.

FilterInit ==
  /\ CoreIdle /\ ElstIdle /\ InjectIdle /\ PopulateIdle
  /\ DetectorIdle /\ DelayedIdle
  /\ flt = NewFilter(0) /\ fN = 0 /\ fLast = NoFilterCall
  /\ fHist = NoFilterHistory /\ fPhase = "calls"

Before(f) ==
  [q |-> f.q, b |-> f.b, gyro |-> f.current_gyro_measurement,
   previous_gyro_t |-> f.previous_gyro_measurement.timestamp_s,
   mag_status |-> f.mag_status,
   new_mag_calibration_available |-> f.new_mag_calibration_available]

\* The history after a call: ever_gyro, a sample has been passed to
\* AddGyroMeasurement; buffered, the samples buffered since the
\* accumulation started or restarted, and filled, those before a restart
\* of this call; run, the samples in a row found off since the status
\* became kAligned or a sample was found along (none once the status is
\* no longer kAligned).
HistoryOf(kind, f) ==
  LET ev == f.ev
      b0 == IF ev.restarted = "calibration" THEN 0 ELSE fHist.buffered
      b1 == IF ev.wrote >= 0 THEN b0 + 1 ELSE b0
      r0 == IF ev.solved = "ok" THEN 0 ELSE fHist.run
  IN [ever_gyro |-> fHist.ever_gyro \/ kind = "AddGyroMeasurement",
      buffered |-> IF ev.restarted \in {"failure", "outliers"} THEN 0 ELSE b1,
      filled |-> b1,
      run |-> IF ~ev.judged
                THEN (IF f.mag_status = "kAligned" THEN r0 ELSE 0)
              ELSE IF ev.off THEN r0 + 1 ELSE 0]

FilterStep(kind, sample, timestamp_s, f) ==
  /\ flt' = f
  /\ fLast' = [kind |-> kind, sample |-> sample, timestamp_s |-> timestamp_s,
               before |-> Before(flt), ever_gyro |-> fHist.ever_gyro]
  /\ fHist' = HistoryOf(kind, f)
  /\ UNCHANGED filterRest

FilterCall(kind, sample, timestamp_s, f) ==
  /\ fPhase = "calls" /\ fN < MaxFilterCalls
  /\ FilterStep(kind, sample, timestamp_s, f)
  /\ fN' = fN + 1
  /\ UNCHANGED fPhase

FAddAccel ==
  \E sample \in FilterAccels, timestamp_s \in FilterTimes :
    FilterCall("AddAccelMeasurement", sample, timestamp_s,
               Filter_AddAccelMeasurement(flt, sample, timestamp_s, TRUE))

FAddGyro ==
  \E sample \in FilterGyros, timestamp_s \in FilterTimes :
    FilterCall("AddGyroMeasurement", sample, timestamp_s,
               Filter_AddGyroMeasurement(flt, sample, timestamp_s, TRUE))

FSetOrientation ==
  \E orientation \in Orientations :
    FilterCall("SetOrientation", Zero3, 0, SetOrientation(flt, orientation))

FRecenter == FilterCall("Recenter", Zero3, 0, Recenter(flt))

FilterNext == FAddAccel \/ FAddGyro \/ FSetOrientation \/ FRecenter

SpecFilter == FilterInit /\ [][FilterNext]_vars

\* ------------------------------------- orientation filter: a mag stream
\* The filter with a mag yaw correction.  An accel sample at rest sets the
\* orientation; then mag samples come every kMagPeriod, each followed by a
\* gyro sample at rest kGyroLag after it.  A mag sample is along the
\* estimate or off it, and fits the calibration or not.  The callback is
\* registered or unregistered before the samples, and a new calibration
\* can be announced between them.

MagInit ==
  /\ CoreIdle /\ ElstIdle /\ InjectIdle /\ PopulateIdle
  /\ DetectorIdle /\ DelayedIdle
  /\ flt = NewFilter(kUnit) /\ fN = 0 /\ fLast = NoFilterCall
  /\ fHist = NoFilterHistory /\ fPhase = "accel"

MagCall(kind, sample, timestamp_s, f, phase) ==
  /\ FilterStep(kind, sample, timestamp_s, f)
  /\ fPhase' = phase
  /\ UNCHANGED fN

MAddAccel ==
  /\ fPhase = "accel"
  /\ MagCall("AddAccelMeasurement", kAtRest, kMagPeriod,
             Filter_AddAccelMeasurement(flt, kAtRest, kMagPeriod, TRUE),
             "mag")

MAddMag ==
  /\ fPhase = "mag"
  /\ flt.current_mag_measurement.timestamp_s < MaxMagSamples * kMagPeriod
  /\ \E reading \in MagReadings :
       LET timestamp_s ==
             flt.current_mag_measurement.timestamp_s + kMagPeriod
       IN MagCall("AddMagMeasurement", Zero3, timestamp_s,
                  AddMagMeasurement(flt, reading.sample, timestamp_s,
                                    reading.fits_calibration), "gyro")

MAddGyro ==
  /\ fPhase = "gyro"
  /\ \E solves \in BOOLEAN :
       LET timestamp_s == flt.current_mag_measurement.timestamp_s + kGyroLag
       IN MagCall("AddGyroMeasurement", Zero3, timestamp_s,
                  Filter_AddGyroMeasurement(flt, Zero3, timestamp_s, solves),
                  "mag")

MSetMagBias ==
  /\ fPhase = "mag"
  /\ ~flt.new_mag_calibration_available
  /\ MagCall("SetMagBias", Zero3, 0, SetMagBias(flt), "mag")

MRegister ==
  /\ fPhase = "accel"
  /\ \E callback \in Callbacks :
       /\ callback \notin flt.on_bad_mag_calibration_detected_callbacks
       /\ MagCall("Register", Zero3, 0, RegisterCallback(flt, callback), "accel")

MUnRegister ==
  /\ fPhase = "accel"
  /\ \E callback \in flt.on_bad_mag_calibration_detected_callbacks :
       MagCall("UnRegister", Zero3, 0, UnRegisterCallback(flt, callback), "accel")

MagNext ==
  MAddAccel \/ MAddMag \/ MAddGyro \/ MSetMagBias \/ MRegister
    \/ MUnRegister

SpecMag == MagInit /\ [][MagNext]_vars

\* The size an atom's header declares, decoded from the raw bytes at 0.
DeclaredSize(data) ==
  LET s32 == FromBE(SubSeq(data, 1, 4)) IN
  IF s32 = 1 THEN FromBE(SubSeq(data, 9, 16))
  ELSE IF s32 = 0 THEN Len(data) ELSE s32

DeclaredHeader(data) == IF FromBE(SubSeq(data, 1, 4)) = 1 THEN 16 ELSE 8

\* The stream holds a whole header.
HeaderFits(data) == Len(data) >= 8 /\ Len(data) >= DeclaredHeader(data)

\* The bytes left in [from, to) after walking the boxes there by their
\* declared sizes, for as long as a header fits.
RECURSIVE LeftAfterBoxes(_, _, _)
LeftAfterBoxes(data, from, to) ==
  IF from + 8 > to \/ to > Len(data) THEN to - from
  ELSE LET rest == SubSeq(data, from + 1, to) IN
       IF ~HeaderFits(rest) \/ DeclaredSize(rest) < DeclaredHeader(rest)
         THEN to - from
         ELSE LeftAfterBoxes(data, from + DeclaredSize(rest), to)

\* C1: every byte string that ReadAtom parses (here: every well-formed one
\* with explicit sizes) is written back by WriteAtom byte for byte.
C1_RoundTrip ==
  (rtPc = "written" /\ rtIn.data \in RTWellFormed)
    => (rtOut.ok /\ rtOut.out = rtIn.data)

\* C9: ReadAtom returns nullptr (and no tree) or an atom whose parse
\* advanced the reader by exactly the declared size; a declared size below
\* the header size gives nullptr; a container is returned only when 0 or 4
\* bytes are left after its children, and has the terminator flag exactly
\* in the second case (for a stream that holds the declared bytes).
C9_ReadAtomAllOrNothing ==
  rtPc # "start" =>
    /\ ~rtRes.ok => rtRes.atom = NullAtom
    /\ ~HeaderFits(rtIn.data) => ~rtRes.ok
    /\ HeaderFits(rtIn.data) =>
         LET size == DeclaredSize(rtIn.data)
             hdr == DeclaredHeader(rtIn.data)
             left == LeftAfterBoxes(rtIn.data, hdr, size)
         IN /\ rtRes.ok => ReaderTell(rtRes.r) = ReaderTell(rtIn) + size
            /\ size < hdr => ~rtRes.ok
            /\ (rtRes.ok /\ rtRes.atom.cls = "AtomTRAK" /\ size <= Len(rtIn.data))
                 => /\ left \in {0, 4}
                    /\ rtRes.atom.nt = (left = 4)

\* A container with children and a null terminator was parsed.
C9_Witness ==
  /\ rtPc = "read" /\ rtRes.ok
  /\ rtRes.atom.nt /\ Len(rtRes.atom.kids) > 0

\* The top-level atoms of a file, walked by their declared sizes: position,
\* size and type of each; an entry of size 0 ends the walk where no atom
\* with a whole header and a size within the file starts.
RECURSIVE TopWalk(_, _)
TopWalk(data, from) ==
  LET Atom(rest) ==
        IF ~HeaderFits(rest) THEN <<[pos |-> from, size |-> 0, type |-> <<>>]>>
        ELSE IF DeclaredSize(rest) < DeclaredHeader(rest)
                \/ DeclaredSize(rest) > Len(rest)
          THEN <<[pos |-> from, size |-> 0, type |-> <<>>]>>
        ELSE <<[pos |-> from, size |-> DeclaredSize(rest),
                type |-> SubSeq(rest, 5, 8)]>>
             \o TopWalk(data, from + DeclaredSize(rest))
  IN IF from >= Len(data) THEN <<>>
     ELSE Atom(SubSeq(data, from + 1, Len(data)))

\* Each atom's declared size leads to the next header or to the end.
WellFormedTop(data) ==
  \A k \in 1..Len(TopWalk(data, 0)) : TopWalk(data, 0)[k].size > 0

HasTop(data, type) ==
  \E k \in 1..Len(TopWalk(data, 0)) : TopWalk(data, 0)[k].type = type

\* The index, in the walk, of the first top-level atom of a type.
TopIndex(data, type) ==
  CHOOSE k \in 1..Len(TopWalk(data, 0)) :
    /\ TopWalk(data, 0)[k].type = type
    /\ \A j \in 1..(k - 1) : TopWalk(data, 0)[j].type # type

TopAtom(data, type) == TopWalk(data, 0)[TopIndex(data, type)]

TopBytes(data, e) == SubSeq(data, e.pos + 1, e.pos + e.size)

\* The chunk offsets of a track: those of the first stco or co64 of its
\* sample table.
TrackTable(trak) ==
  IF ~HasMinf(trak) \/ atom_stbl(trak) = <<>> THEN <<>>
  ELSE IF FindChild(AtomAt(trak, atom_stbl(trak)), "AtomSTCO") = 0 THEN <<>>
  ELSE AtomAt(trak, atom_stbl(trak))
         .kids[FindChild(AtomAt(trak, atom_stbl(trak)), "AtomSTCO")].tab

\* The chunk-offset tables, track by track, of a serialized moov.
TablesOf(moov) == [k \in 1..Len(tracks(moov)) |-> TrackTable(moov.kids[tracks(moov)[k]])]
MoovTables(bytes) == TablesOf(TreeParse(bytes))

\* The file after the writes of the in-place path.
RECURSIVE FileAfter(_, _)
FileAfter(data, ws) ==
  IF ws = <<>> THEN data
  ELSE FileAfter(
         [i \in 1..Max(Len(data), Head(ws).pos + Len(Head(ws).bytes)) |->
            IF i > Head(ws).pos /\ i <= Head(ws).pos + Len(Head(ws).bytes)
              THEN Head(ws).bytes[i - Head(ws).pos]
            ELSE IF i <= Len(data) THEN data[i] ELSE 0],
         Tail(ws))

MMRewriteOk == mmPc = "done" /\ mmMode = "rewrite" /\ mmStatus = "OK"
MMInPlaceOk == mmPc = "done" /\ mmMode = "inplace" /\ mmStatus = "OK"

\* C2: in the rewrite path, after an OK return, every chunk offset of every
\* track of the written moov is the offset of the input plus D, the
\* position of mdat in the output minus its position in the input.
C2_OffsetsFollowMdat ==
  MMRewriteOk =>
    LET D == TopAtom(mmOut, kMdatType).pos - TopAtom(mmFile, kMdatType).pos
        tin == MoovTables(TopBytes(mmFile, TopAtom(mmFile, kMoovType)))
        tout == MoovTables(TopBytes(mmOut, TopAtom(mmOut, kMoovType)))
    IN /\ Len(tout) = Len(tin)
       /\ \A k \in 1..Len(tin) :
            /\ Len(tout[k]) = Len(tin[k])
            /\ \A i \in 1..Len(tin[k]) : tout[k][i] = tin[k][i] + D

\* The index in the input of the atom that the rewrite path puts at k.
SwapIndex(data, k) ==
  LET moov == TopIndex(data, kMoovType)
      mdat == TopIndex(data, kMdatType)
  IN IF moov > mdat /\ k = mdat THEN moov
     ELSE IF moov > mdat /\ k = moov THEN mdat ELSE k

\* C7: in the rewrite path, after an OK return, the output holds the
\* top-level atoms of the input, with moov and mdat exchanged if moov
\* followed mdat and every other atom where it was; moov precedes mdat
\* and the atoms are serialized one after the other.
C7_MoovBeforeMdat ==
  MMRewriteOk =>
    LET win == TopWalk(mmFile, 0)
        wout == TopWalk(mmOut, 0)
    IN /\ WellFormedTop(mmOut)
       /\ Len(wout) = Len(win)
       /\ TopIndex(mmOut, kMoovType) < TopIndex(mmOut, kMdatType)
       /\ \A k \in 1..Len(win) :
            /\ wout[k].type = win[SwapIndex(mmFile, k)].type
            /\ wout[k].type # kMoovType =>
                 TopBytes(mmOut, wout[k])
                   = TopBytes(mmFile, win[SwapIndex(mmFile, k)])

\* A file whose moov followed its mdat was rewritten with a larger moov.
C7_Witness ==
  /\ MMRewriteOk /\ mmMod.kind = "addSdtp"
  /\ TopIndex(mmFile, kMoovType) > TopIndex(mmFile, kMdatType)
  /\ Len(TopWalk(mmFile, 0)) = 4

\* C8: ModifyMoov returns an error and writes nothing when the input has no
\* top-level moov or no top-level mdat, in which case the modifier is not
\* called, or when the modifier returns an error; in both paths.
C8_ErrorWritesNothing ==
  mmMode \in {"rewrite", "inplace"} =>
    /\ (~HasTop(mmFile, kMoovType) \/ ~HasTop(mmFile, kMdatType)) =>
         /\ mmPc \in {"start", "done"}
         /\ mmModRet = "none"
         /\ mmPc = "done" => mmStatus = "ERROR"
         /\ mmOut = <<>> /\ mmWrites = <<>>
    /\ mmModRet = "ERROR" =>
         /\ mmPc = "done" /\ mmStatus = "ERROR"
         /\ mmOut = <<>> /\ mmWrites = <<>>
         /\ FileAfter(mmFile, mmWrites) = mmFile

\* The in-place call on a file without mdat has returned.
C8_Witness ==
  /\ mmPc = "done" /\ mmMode = "inplace" /\ mmStatus = "ERROR"
  /\ HasTop(mmFile, kMoovType) /\ ~HasTop(mmFile, kMdatType)

\* C3: in the in-place path no write touches the bytes of mdat, which stay
\* where they were, and the moov written has the chunk offsets of the
\* input.
C3_MdatUntouched ==
  (mmMode = "inplace" /\ mmPc = "done" /\ HasTop(mmFile, kMdatType)) =>
    LET mdat == TopAtom(mmFile, kMdatType) IN
    /\ \A k \in 1..Len(mmWrites) :
         \/ mmWrites[k].pos + Len(mmWrites[k].bytes) <= mdat.pos
         \/ mmWrites[k].pos >= mdat.pos + mdat.size
    /\ TopBytes(FileAfter(mmFile, mmWrites), mdat) = TopBytes(mmFile, mdat)
    /\ mmStatus = "OK" =>
         MoovTables(mmWrites[1].bytes)
           = MoovTables(TopBytes(mmFile, TopAtom(mmFile, kMoovType)))

\* A grown moov was moved to the end of a file whose mdat follows it.
C3_Witness ==
  /\ MMInPlaceOk /\ mmMod.kind = "addSdtp"
  /\ Len(mmWrites) = 2 /\ mmWrites[1].pos = Len(mmFile)
  /\ TopIndex(mmFile, kMoovType) < TopIndex(mmFile, kMdatType)

\* The size of the free atom that follows moov in the file, 0 if none does.
FreeAfterMoov(data) ==
  LET next == TopWalk(data, 0)[TopIndex(data, kMoovType) + 1] IN
  IF next.type = kFreeType THEN next.size ELSE 0

\* The size() of the moov atom that ReadAtom returns for the moov of the
\* file: what moov->size() is before the modifier is called.
ParsedMoovSize(data) ==
  Size(ReadAtom(NewReader(TopBytes(data, TopAtom(data, kMoovType)), "memory")).atom)

\* C4: in the in-place path with moov before mdat, S0 and S1 being the
\* size() of moov before and after the modifier and F the size of a free
\* atom that follows moov:
\* if S1 - S0 = F only the new moov is written, at the position of moov;
\* else if S1 - S0 + 8 <= F the new moov is written there, followed by the
\* header of a free atom of size F - (S1 - S0); otherwise the new moov is
\* written at the former end of the file and the header of a free atom of
\* size S0 at the position of moov.
C4_InPlaceBranches ==
  (MMInPlaceOk /\ TopIndex(mmFile, kMoovType) < TopIndex(mmFile, kMdatType)) =>
    LET P == TopAtom(mmFile, kMoovType).pos
        S0 == ParsedMoovSize(mmFile)
        S1 == Len(mmWrites[1].bytes)
        F == FreeAfterMoov(mmFile)
    IN /\ SubSeq(mmWrites[1].bytes, 5, 8) = kMoovType
       /\ DeclaredSize(mmWrites[1].bytes) = S1
       /\ IF S1 - S0 = F
            THEN Len(mmWrites) = 1 /\ mmWrites[1].pos = P
          ELSE IF S1 - S0 + 8 <= F
            THEN /\ Len(mmWrites) = 2 /\ mmWrites[1].pos = P
                 /\ mmWrites[2] = [pos |-> P + S1,
                                    bytes |-> BE(F - (S1 - S0), 4) \o T_free]
          ELSE /\ Len(mmWrites) = 2 /\ mmWrites[1].pos = Len(mmFile)
               /\ mmWrites[2] = [pos |-> P, bytes |-> BE(S0, 4) \o T_free]

\* A grown moov was written in place of its own and of a part of the free
\* atom after it, and the rest made a free atom again.
C4_Witness ==
  /\ MMInPlaceOk /\ mmMod.kind = "addSdtp"
  /\ TopIndex(mmFile, kMoovType) < TopIndex(mmFile, kMdatType)
  /\ FreeAfterMoov(mmFile) > 0
  /\ Len(mmWrites) = 2
  /\ mmWrites[1].pos = TopAtom(mmFile, kMoovType).pos
  /\ mmWrites[2].pos = mmWrites[1].pos + Len(mmWrites[1].bytes)

\* C5: in the in-place path with moov after mdat, moov and the atoms after
\* it are rewritten one after the other from the position of moov, followed
\* by the header of a free atom of size max(d, 8) if moov is d bytes
\* smaller, and after an OK return the file is a well-formed sequence of
\* top-level atoms.
C5_AfterMdatWellFormed ==
  (MMInPlaceOk /\ TopIndex(mmFile, kMoovType) > TopIndex(mmFile, kMdatType)) =>
    LET P == TopAtom(mmFile, kMoovType).pos
        S0 == TopAtom(mmFile, kMoovType).size
        S1 == DeclaredSize(mmWrites[1].bytes)
        rest == SubSeq(mmFile, P + S0 + 1, Len(mmFile))
    IN /\ mmWrites[1].pos = P
       /\ SubSeq(mmWrites[1].bytes, 5, 8) = kMoovType
       /\ SubSeq(mmWrites[1].bytes, S1 + 1, Len(mmWrites[1].bytes)) = rest
       /\ IF S1 < S0
            THEN /\ Len(mmWrites) = 2
                 /\ mmWrites[2] = [pos |-> P + S1 + Len(rest),
                                    bytes |-> BE(Max(S0 - S1, 8), 4) \o T_free]
            ELSE Len(mmWrites) = 1
       /\ WellFormedTop(FileAfter(mmFile, mmWrites))

\* What a written chunk-offset atom (8-byte header) says: its type, its
\* data size, and entry i of a table of w-byte entries.
WrittenType(out) == SubSeq(out, 5, 8)
WrittenDataSize(out) == FromBE(SubSeq(out, 1, 4)) - 8
WrittenEntry(out, i, w) == FromBE(SubSeq(out, 16 + (i - 1) * w + 1, 16 + i * w))

StcoM == IF sAtom0.tab = <<>> THEN 0 ELSE MaxSeq(sAtom0.tab)

\* C10 as stated: after a sequence of AdjustChunkOffsets calls of sum D on
\* a table of n offsets with largest offset M, the atom is written as co64
\* with 8-byte entries and data size 8 + 8n if M + D > 2^32 - 1 and with its
\* own type otherwise, and every written entry is the stored offset plus D.
C10_AsStated ==
  sPc = "written" =>
    LET n == Len(sAtom0.tab)
        w == IF WrittenType(sOut.out) = kType64 THEN 8 ELSE 4
    IN /\ sOut.ok
       /\ IF StcoM + sD > UINT32_MAX
            THEN /\ WrittenType(sOut.out) = kType64
                 /\ WrittenDataSize(sOut.out) = 8 + 8 * n
            ELSE WrittenType(sOut.out) = sAtom0.type
       /\ \A i \in 1..n : WrittenEntry(sOut.out, i, w) = sAtom0.tab[i] + sD

\* C10 amended: the atom is written as co64 exactly when it was read as
\* co64 or M plus the sum of the adjustments exceeded 2^32 - 1 after some
\* call (a promotion is never undone); its data size is 8 plus n entries of
\* its width (plus 4 for a null terminator); every written entry is the
\* stored offset plus D, modulo the width of the entry.
C10_PromotionIsKept ==
  sPc = "written" =>
    LET n == Len(sAtom0.tab)
        is64 == sAtom0.type = kType64
                \/ (sN > 0 /\ StcoM + sPeak > UINT32_MAX)
        w == IF is64 THEN 8 ELSE 4
        m == IF is64 THEN UINT64_MOD ELSE UINT32_MAX + 1
    IN /\ sOut.ok
       /\ WrittenType(sOut.out) = (IF is64 THEN kType64 ELSE kType32)
       /\ WrittenDataSize(sOut.out)
            = 8 + w * n + (IF sAtom0.nt THEN 4 ELSE 0)
       /\ Len(sOut.out) = 8 + WrittenDataSize(sOut.out)
       /\ \A i \in 1..n :
            WrittenEntry(sOut.out, i, w) = (sAtom0.tab[i] + sD) % m

\* An stco table was adjusted past 2^32 - 1 and back, and written.
C10_Witness ==
  /\ sPc = "written" /\ sOut.ok
  /\ sAtom0.type = kType32 /\ sAtom0.tab # <<>>
  /\ StcoM + sPeak > UINT32_MAX
  /\ StcoM + sD <= UINT32_MAX
  /\ WrittenType(sOut.out) = kType64

\* The payload of an atom of the tree specification: what its class
\* encodes, and for an unknown atom the bytes it was read with.
TreePayload(a) ==
  IF a.cls # "AtomDefault" THEN GetDataSizeWithoutChildren(a)
  ELSE CASE a.type = T_udta -> 3
         [] a.type = T_mdat -> TreeBigPayload
         [] OTHER -> 0

TreeSizesAgree(a) ==
  /\ a.ds = TreePayload(a) + SumSizes(a.kids) + (IF a.nt THEN 4 ELSE 0)
  /\ Size(a) = a.hs + a.ds
  /\ a.hs = IF 8 + a.ds > UINT32_MAX THEN 16 ELSE 8

\* C6: after AddChild, AddChildAt, DeleteChild or set_has_null_terminator
\* on an atom of a tree, every atom from that atom up to the root has a data
\* size of its payload plus its children's sizes plus 4 for a terminator,
\* and a header of 16 bytes exactly when 8 + data size exceeds 2^32 - 1.
C6_PathSizes ==
  (tN > 0 /\ tLast.changed) =>
    \A k \in 0..Len(tLast.path) :
      TreeSizesAgree(AtomAt(tree, SubSeq(tLast.path, 1, k)))

\* The last two mutations were AddChildAt(child, i), which added the child,
\* and DeleteChild(i) on the same atom.
AddedThenDeleted ==
  /\ tN = 2 /\ tLast.changed /\ tLast.prev.changed
  /\ tLast.kind = "DeleteChild" /\ tLast.prev.kind = "AddChildAt"
  /\ tLast.path = tLast.prev.path /\ tLast.index = tLast.prev.index

\* C11: AddChildAt(child, i) followed by DeleteChild(i) leaves data_size
\* and header_size of the parent as they were before the two calls, for
\* any atom, typed or default, constructed or parsed.
C11_AddThenDelete ==
  AddedThenDeleted =>
    /\ AtomAt(tree, tLast.path).ds = tLast.prev.ds0
    /\ AtomAt(tree, tLast.path).hs = tLast.prev.hs0

\* An entry that does not fit the 32-bit fields of version 0.
NeedsVersion1(entry) ==
  \/ entry.segment_duration > UINT32_MAX
  \/ entry.media_time > INT32_MAX
  \/ entry.media_time < INT32_MIN

\* C12: whenever the entry list of an elst holds an entry whose
\* segment_duration exceeds 2^32 - 1 or whose media_time is outside the
\* signed 32-bit range, however it got there, the version is 1, and the
\* atom written and read back has the same entries.
C12_LargeEntryMeansVersion1 ==
  (ePc # "idle" /\ \E i \in 1..Len(eAtom.tab) : NeedsVersion1(eAtom.tab[i])) =>
    /\ eAtom.ver = 1
    /\ ePc = "read" => (eBack.ok /\ eBack.atom.tab = eAtom.tab)

\* The children of a that are of the class.
ChildrenOf(a, cls) == SelectSeq(a.kids, LAMBDA k : k.cls = cls)

\* The visual sample entry of the first video track of moov, NullAtom when
\* there is no such track or entry.
FirstVisualSampleEntry(moov) ==
  LET Vse(t, p) == IF p = <<>> THEN NullAtom ELSE AtomAt(moov, <<t>> \o p)
      Track(t) ==
        IF t = 0 THEN NullAtom ELSE Vse(t, visual_sample_entry(moov.kids[t]))
  IN Track(GetFirstVideoTrack(moov))

\* C13: whenever InjectProjectionMetadataToMoov returns OK, the visual
\* sample entry of the first video track has exactly one st3d child, with
\* the requested stereo mode, and exactly one sv3d child, the atom read from
\* the supplied bytes; and the same call made again leaves the tree as it
\* is.
C13_InjectedOnOk ==
  (iLast.kind = "InjectProjectionMetadataToMoov" /\ iLast.status = "OK") =>
    /\ FirstVisualSampleEntry(iMoov) # NullAtom
    /\ ChildrenOf(FirstVisualSampleEntry(iMoov), "AtomST3D")
         = <<set_stereo_mode(NewSt3d, iLast.mode)>>
    /\ ChildrenOf(FirstVisualSampleEntry(iMoov), "AtomSV3D")
         = <<Parsed(iLast.bytes)>>
    /\ InjectProjectionMetadataToMoov(iLast.mode, iLast.bytes, iMoov).moov
         = iMoov

\* The tree a with the children of the atom at path replaced by kids, and
\* the sizes of that atom and of its ancestors recomputed.
RECURSIVE WithKidsAt(_, _, _)
WithKidsAt(a, path, kids) ==
  IF path = <<>> THEN UpdateSize([a EXCEPT !.kids = kids])
  ELSE UpdateSize([a EXCEPT !.kids[Head(path)] =
                              WithKidsAt(a.kids[Head(path)], Tail(path), kids)])

\* The path to the stsd of the first meta track of moov (under its mdia,
\* minf and stbl), <<>> when there is no meta track or it has no stsd.
StsdOfFirstMetaTrack(moov) ==
  LET Down(p, cls) ==
        IF p = <<>> \/ FindChild(AtomAt(moov, p), cls) = 0 THEN <<>>
        ELSE p \o <<FindChild(AtomAt(moov, p), cls)>>
      Then(ms) ==
        IF ms = <<>> THEN <<>>
        ELSE Down(Down(Down(Down(<<Head(ms)>>, "AtomMDIA"), "AtomMINF"),
                       "AtomSTBL"), "AtomSTSD")
  IN Then(SelectSeq(tracks(moov),
                    LAMBDA t : track_type(moov.kids[t]) = "META_MEDIA_TYPE"))

\* The stsd of the first meta track has exactly one child, typed mett.
OneMettInFirstMeta(moov) ==
  /\ StsdOfFirstMetaTrack(moov) # <<>>
  /\ Len(AtomAt(moov, StsdOfFirstMetaTrack(moov)).kids) = 1
  /\ AtomAt(moov, StsdOfFirstMetaTrack(moov)).kids[1].type = kMettType

\* C14: ReplaceMettWithCamm returns OK only if the stsd of the first meta
\* track has exactly one child and it is typed mett; the tree is then the
\* one before with that child replaced by a default camm entry and the sizes
\* of the ancestors recomputed; in every other case the call returns
\* FILE_FORMAT_ERROR and the tree is as before.
C14_OkOnlyForOneMett ==
  iLast.kind = "ReplaceMettWithCamm" =>
    IF OneMettInFirstMeta(iLast.before)
      THEN /\ iLast.status = "OK"
           /\ iMoov = WithKidsAt(iLast.before,
                                 StsdOfFirstMetaTrack(iLast.before),
                                 <<NewCamm>>)
      ELSE /\ iLast.status = "FILE_FORMAT_ERROR"
           /\ iMoov = iLast.before

\* C15: for a non-empty list of 1-based key-frame indices whose last element
\* is L, the populated sdtp has exactly L flag bytes, and byte i (0-based)
\* is 0x20 if and only if i + 1 occurs in the list, and 0x18 otherwise.
C15_FlagsFollowIndices ==
  pPc = "populated" =>
    /\ Len(pAtom.tab) = pIndices[Len(pIndices)]
    /\ \A i \in 0..(Len(pAtom.tab) - 1) :
         pAtom.tab[i + 1] =
           IF \E k \in 1..Len(pIndices) : pIndices[k] = i + 1
             THEN kIFrameDescription ELSE kPFrameDescription

\* The sequence s without its element at position i.
Without(s, i) == SubSeq(s, 1, i - 1) \o SubSeq(s, i + 1, Len(s))

\* C16 for one track, before (b) and after (a) the call: an edts is
\* immediately before the mdia; the other children are those of before, in
\* their order; an edts made by the call has an elst of one entry whose
\* segment_duration is the duration of the tkhd.
EdtsInPlace(b, a) ==
  LET m == FindChild(a, "AtomMDIA")
      e0 == FindChild(b, "AtomEDTS")
      tkhd == FindChild(b, "AtomTKHD")
  IN /\ m > 1
     /\ a.kids[m - 1].cls = "AtomEDTS"
     /\ Without(a.kids, m - 1) = (IF e0 = 0 THEN b.kids ELSE Without(b.kids, e0))
     /\ e0 = 0 =>
          /\ tkhd # 0
          /\ Len(a.kids[m - 1].kids) = 1
          /\ a.kids[m - 1].kids[1].cls = "AtomELST"
          /\ Len(a.kids[m - 1].kids[1].tab) = 1
          /\ a.kids[m - 1].kids[1].tab[1].segment_duration
               = b.kids[tkhd].tab[1]

\* C16: whenever InjectEdtsToMoov returns OK, every track of the moov has an
\* edts child immediately before its mdia child, the other children of the
\* track keep their relative order, and a track that had no edts has got
\* one whose elst has exactly one entry, with segment_duration equal to the
\* duration of the track's tkhd.
C16_EdtsBeforeMdia ==
  (iLast.kind = "InjectEdtsToMoov" /\ iLast.status = "OK") =>
    /\ tracks(iMoov) = tracks(iLast.before)
    /\ \A k \in 1..Len(tracks(iMoov)) :
         EdtsInPlace(iLast.before.kids[tracks(iMoov)[k]],
                     iMoov.kids[tracks(iMoov)[k]])

\* InjectEdtsToMoov has returned OK on a tree with a track without edts and
\* a track whose edts was not immediately before its mdia.
C16_Witness ==
  /\ iLast.kind = "InjectEdtsToMoov" /\ iLast.status = "OK"
  /\ \E t \in 1..Len(iLast.before.kids) :
       FindChild(iLast.before.kids[t], "AtomEDTS") = 0
  /\ \E t \in 1..Len(iLast.before.kids) :
       /\ FindChild(iLast.before.kids[t], "AtomEDTS") # 0
       /\ FindChild(iLast.before.kids[t], "AtomEDTS") + 1
            # FindChild(iLast.before.kids[t], "AtomMDIA")

\* The class each source file writes for its type tag.
WrittenFor ==
  { <<T_moov, "AtomMOOV">>, <<T_trak, "AtomTRAK">>, <<T_stco, "AtomSTCO">>,
    <<T_co64, "AtomSTCO">>, <<T_sdtp, "AtomSDTP">>, <<T_elst, "AtomELST">>,
    <<T_hdlr, "AtomHDLR">>, <<T_stsd, "AtomSTSD">>, <<T_stss, "AtomSTSS">>,
    <<T_tkhd, "AtomTKHD">>, <<T_st3d, "AtomST3D">>, <<T_camm, "AtomCAMM">>,
    <<T_uuid, "AtomUUID">>, <<T_avc1, "VisualSampleEntry">> }

\* C17: CreateAtom returns, for every registered type tag, an atom of the
\* class written for the tag, and the default atom for every other tag; the
\* top-level moov atom that ModifyMoov hands to the modifier is an AtomMOOV.
C17_CreateAtomClasses ==
  /\ \A e \in WrittenFor :
       CreateAtom(kMinSizeofAtomHeader, 0, e[1]).cls = e[2]
  /\ \A tag \in {T_free, T_mdat, T_ftyp, T_udta, T_mett, T_proj} :
       CreateAtom(kMinSizeofAtomHeader, 0, tag).cls = "AtomDefault"
  /\ mmPc = "located" => mmAtoms[mmLoc.moov_index + 1].cls = "AtomMOOV"

\* The dwell Update asks of the exit tester: was_initializing is
\* IsInitializing() as the call found it, on the timestamps of the gyro
\* samples before the one it adds.
DwellOf(call) ==
  IF call.was_initializing THEN init_no_exit_condition_stable_secs
  ELSE no_exit_condition_stable_secs

\* The last call made IsStationary() change from false to true.
BecameStationary == ~dLast.was_stationary /\ det.is_stationary

ExitOnSample ==
  \/ det.accel_high_pass_filter.v > accel_high_pass_threshold
  \/ det.gyro_high_pass_filter.v > gyro_high_pass_threshold
  \/ det.last_gyro_sample > gyro_norm_threshold_rad_per_sec
  \/ dLast.was_crossed

\* C19: when a gyro sample with a valid time step for which the exit
\* condition holds has been added to a stationary detector, IsStationary()
\* is false and the bias filter, the convergence flag, the
\* max-correction-crossed flag and both stability timers are reset.
C19_ExitLeavesStationary ==
  (/\ dLast.kind = "AddGyroMeasurement" /\ dLast.valid
   /\ dLast.was_stationary /\ ExitOnSample)
  => /\ ~det.is_stationary
     /\ det.gyro_bias_delayed_low_pass_filter
          = Delayed_Reset(det.gyro_bias_delayed_low_pass_filter)
     /\ ~det.has_gyro_bias_correction_converged
     /\ ~det.is_max_correction_threshold_crossed
     /\ det.exit_condition_tester = NewTester
     /\ det.convergence_condition_tester = NewTester

\* Every component of a within -bound and bound.
Clamp3(a, bound) == [i \in 1..3 |-> Max(0 - bound, Min(bound, a[i]))]

\* C20: outside the initialization period a non-zero result of
\* GetGyroBiasCorrection is gain times (ext_bias - stationary_bias) clamped
\* per component to max_stationary_gyro_bias_correction, and no component of
\* it exceeds gain times that bound in magnitude.
C20_CorrectionIsClamped ==
  (/\ dLast.kind = "GetGyroBiasCorrection" /\ ~IsInitializing(det)
   /\ dLast.out # Zero3)
  => /\ dLast.out
          = Times3(Clamp3(Minus3(dLast.ext,
                                 det.gyro_bias_delayed_low_pass_filter.lp.v),
                          max_stationary_gyro_bias_correction),
                   stationary_bias_correction_gain)
     /\ \A i \in 1..3 :
          /\ dLast.out[i] <= stationary_bias_correction_gain
                               * max_stationary_gyro_bias_correction
          /\ 0 - dLast.out[i] <= stationary_bias_correction_gain
                                   * max_stationary_gyro_bias_correction

\* The last call was a GetGyroBiasCorrection that computed a correction,
\* and the norm of this correction was above the bound.
ObservedAboveBound ==
  /\ dLast.kind = "GetGyroBiasCorrection"
  /\ dLast.was_stationary
  /\ BiasIsAvailable(det.gyro_bias_delayed_low_pass_filter)
  /\ NormSq(Minus3(dLast.ext, det.gyro_bias_delayed_low_pass_filter.lp.v))
       > max_stationary_gyro_bias_correction
         * max_stationary_gyro_bias_correction

\* C21: a GetGyroBiasCorrection that observes a correction above the bound
\* after the correction has converged sets max-correction-crossed and
\* returns zero, and so does every GetGyroBiasCorrection for as long as the
\* flag is set, that is until the detector is reset.
C21_ZeroUntilReset ==
  /\ (ObservedAboveBound /\ det.has_gyro_bias_correction_converged)
       => (det.is_max_correction_threshold_crossed /\ dLast.out = Zero3)
  /\ (dLast.kind = "GetGyroBiasCorrection"
      /\ det.is_max_correction_threshold_crossed)
       => dLast.out = Zero3

\* The first part of C21 after the initialization period.
C21_CrossedAfterInit ==
  (ObservedAboveBound /\ det.has_gyro_bias_correction_converged
   /\ ~IsInitializing(det))
    => (det.is_max_correction_threshold_crossed /\ dLast.out = Zero3)

\* The second part of C21.
C21_ZeroWhileCrossed ==
  (dLast.kind = "GetGyroBiasCorrection"
   /\ det.is_max_correction_threshold_crossed)
    => dLast.out = Zero3

RECURSIVE SumDeltas(_)
SumDeltas(buf) ==
  IF buf = <<>> THEN 0 ELSE Head(buf).delta_time_s + SumDeltas(Tail(buf))

\* The last call gave a sample to the inner low-pass filter.
Forwarded == dlLast.kind = "AddSampleData" /\ dlLog # dlLast.log

\* What C28 says of the order, of the accumulated time and of Reset: the
\* samples forwarded are the samples added, in this order and without
\* those a Reset dropped, at most one in a call and the head of the buffer;
\* the accumulated time is the sum of the deltas in the buffer; after
\* Reset the buffer is empty and the inner filter is reset.
DelayedOrderAndSum ==
  /\ \A i \in 1..Len(dlLog) - 1 : dlLog[i][1] < dlLog[i + 1][1]
  /\ Len(dlLog) <= Len(dlLast.log) + 1
  /\ Forwarded => dlLog = Append(dlLast.log, Head(dlLast.before.buf).value)
  /\ dlLast.kind # "AddSampleData" => dlLog = dlLast.log
  /\ dl.acc = SumDeltas(dl.buf)
  /\ dlLast.kind = "Reset" =>
       /\ dl.buf = <<>> /\ dl.acc = 0
       /\ ~dl.lp.init /\ dl.lp.run = 0 /\ dl.lp.v = Zero3

\* C28 as stated: with the above, a sample is forwarded only when the
\* samples added after it, the one being added included, span at least
\* delay_time_s.
C28_ForwardedAfterDelay ==
  /\ DelayedOrderAndSum
  /\ Forwarded =>
       SumDeltas(Tail(dlLast.before.buf)) + dlLast.delta_time_s >= kTestDelay

\* C28 amended: with the above, AddSampleData forwards the oldest sample of
\* the buffer exactly when the time deltas of the samples in the buffer,
\* that of the oldest included and that of the sample being added not,
\* sum to at least delay_time_s.
C28_ForwardedWhenFull ==
  /\ DelayedOrderAndSum
  /\ dlLast.kind = "AddSampleData" =>
       (Forwarded <=> SumDeltas(dlLast.before.buf) >= kTestDelay)

\* A sample other than the first has been forwarded, from a buffer of more
\* than two samples.
C28_Witness ==
  /\ Forwarded /\ Len(dlLast.before.buf) > 2
  /\ dlLog[Len(dlLog)][1] > 1


\* The time step of the last call, a gyro sample, from the gyro sample
\* before it.
GyroDelta == fLast.timestamp_s - fLast.before.previous_gyro_t

\* C23: AddGyroMeasurement always records its sample as the previous gyro
\* sample, whatever the order of the timestamps, and leaves q and b as they
\* were unless the time step from the previous gyro sample is above 1 ms
\* and at most 1 s.
C23_StepOutsideRangeIsDropped ==
  fLast.kind = "AddGyroMeasurement" =>
    /\ flt.previous_gyro_measurement
         = SensorSample(fLast.sample, fLast.timestamp_s)
    /\ ~(GyroDelta > kMinTimestepS /\ GyroDelta <= kMaxTimestepS)
         => flt.q = fLast.before.q /\ flt.b = fLast.before.b

\* A turning gyro sample has come with a timestamp before that of the
\* previous one to a filter whose orientation is set, and has been recorded.
C23_Witness ==
  /\ fLast.kind = "AddGyroMeasurement" /\ GyroDelta < 0
  /\ fLast.sample # Zero3
  /\ flt.is_orientation_initialized
  /\ flt.previous_gyro_measurement.timestamp_s = fLast.timestamp_s

\* C24: AddAccelMeasurement puts a zero sample in the place of the current
\* gyro measurement (and runs the filter) only if no sample has ever been
\* passed to AddGyroMeasurement: after one has, it leaves the current gyro
\* measurement alone.
C24_AccelKeepsGyroSample ==
  fLast.kind = "AddAccelMeasurement" /\ fLast.ever_gyro =>
    /\ flt.current_gyro_measurement = fLast.before.gyro
    /\ ~flt.ev.ran

\* The norm of a quaternion is one, to the precision of the thousandths.
HasUnitNorm(q) == Abs(Norm4(q) - kUnit) <= 2

\* C26: after AddAccelMeasurement, AddGyroMeasurement, SetOrientation and
\* Recenter the quaternion has a unit norm and a w that is not negative.
C26_UnitQuaternion ==
  fLast.kind \in {"AddAccelMeasurement", "AddGyroMeasurement",
                  "SetOrientation", "Recenter"}
    => HasUnitNorm(flt.q) /\ flt.q[4] >= 0


\* The last call forced the status back to kAligning for its outliers.
ForcedBack == flt.ev.restarted = "outliers"

\* C25: the status is forced from kAligned back to kAligning, and every
\* registered callback called once, exactly when a usable mag sample is
\* found off and is the last of more than kNumMagForFilterOutlierRejection
\* such samples in a row since the status became kAligned or a sample was
\* found along; the callbacks are called at no other time.
C25_BroadcastAfterRunOfOutliers ==
  /\ ForcedBack <=>
       /\ flt.ev.judged /\ flt.ev.off
       /\ fHist.run > kNumMagForFilterOutlierRejection
  /\ ForcedBack =>
       /\ flt.mag_status = "kAligning"
       /\ flt.ev.invoked
            = [c \in flt.on_bad_mag_calibration_detected_callbacks |-> 1]
  /\ ~ForcedBack => flt.ev.invoked = <<>>

\* The parts of C27 on the changes of the status: it leaves kInitial only
\* when a usable mag sample is consumed after a new calibration; it becomes
\* kAligned only in the call that buffers the kNumMagForInitialization-th
\* sample since the accumulation started or restarted, and only if the
\* solver succeeds; after a failure of the solver and when a new
\* calibration is taken up the count starts again from zero with the
\* status kAligning.
StatusChanges ==
  /\ fLast.before.mag_status = "kInitial" /\ flt.mag_status # "kInitial"
       => /\ fLast.before.new_mag_calibration_available
          /\ flt.ev.restarted = "calibration"
  /\ fLast.before.mag_status # "kAligned" /\ flt.mag_status = "kAligned"
       => /\ flt.ev.solved = "ok"
          /\ flt.ev.wrote = kNumMagForInitialization - 1
          /\ fHist.filled = kNumMagForInitialization
  /\ flt.ev.solved = "failed"
       => /\ flt.mag_status = "kAligning"
          /\ flt.mag_meas_for_init_index = 0
          /\ fHist.buffered = 0
  /\ flt.ev.restarted = "calibration"
       => /\ flt.mag_status = "kAligning"
          /\ flt.ev.wrote = 0
          /\ flt.mag_meas_for_init_index = 1

\* C27 as stated: the changes of the status, and mag_meas_for_init_index_
\* below kNumMagForInitialization at all times.
C27_IndexAlwaysBelowCount ==
  /\ StatusChanges
  /\ flt.mag_meas_for_init_index < kNumMagForInitialization

\* C27: the changes of the status; a sample is buffered only at an index
\* below kNumMagForInitialization, and mag_meas_for_init_index_ is below it
\* unless the status is kAligned, when it is equal to it.
C27_WritesBelowCount ==
  /\ StatusChanges
  /\ flt.ev.wrote < kNumMagForInitialization
  /\ fHist.buffered = (IF flt.mag_status = "kAligned"
                         THEN kNumMagForInitialization
                         ELSE flt.mag_meas_for_init_index)
  /\ flt.mag_status = "kAligned"
       <=> flt.mag_meas_for_init_index = kNumMagForInitialization

\* The status has become kAligned on a full buffer, after a failure of the
\* solver on an earlier one.
C27_Witness ==
  /\ fLast.before.mag_status = "kAligning" /\ flt.mag_status = "kAligned"
  /\ flt.ev.solved = "ok"
  /\ flt.current_mag_measurement.timestamp_s
       > (2 * kNumMagForInitialization + 1) * kMagPeriod


\* ------------------------------------------------ unparseable input

\* ReadAtoms left its loop at an atom that failed to parse.
TopLevelParseFailed == ReadAtoms(NewReader(mmFile, "file")).broke

\* C29: if a top-level atom of the input fails to parse, ModifyMoov and
\* ModifyMoovInPlace return an error and write nothing.
C29_ParseFailureIsAnError ==
  (mmPc = "done" /\ TopLevelParseFailed) =>
    /\ mmStatus = "ERROR"
    /\ mmOut = <<>> /\ mmWrites = <<>>

\* The part of C29 that holds: a parse failure before both moov and mdat
\* were read is an error that writes nothing.
C29_ErrorWhenMoovOrMdatIsLost ==
  (mmPc = "done" /\ TopLevelParseFailed
     /\ (mmLoc.moov_index = 0 - 1 \/ mmLoc.mdat_index = 0 - 1)) =>
    /\ mmStatus = "ERROR"
    /\ mmOut = <<>> /\ mmWrites = <<>>

\* ------------------------------------------------ writing a tree twice

\* C30: WriteAtom leaves the tree as it found it: a second WriteAtom on
\* the same unmodified tree returns the status and the bytes of the first,
\* atoms held by AtomDefault included.
C30_SecondWriteIsTheSame ==
  rtPc = "rewritten" => (rtAgain = rtOut /\ rtTree.a = rtRes.atom)

\* The part of C30 that holds: the two writes agree on a tree in which no
\* AtomDefault with a payload was written.
RECURSIVE HasDefaultPayload(_)
HasDefaultPayload(a) ==
  \/ (a.cls = "AtomDefault" /\ a.pr.has /\ a.ds > 0)
  \/ \E i \in 1..Len(a.kids) : HasDefaultPayload(a.kids[i])

C30_SameWithoutDefaultPayload ==
  (rtPc = "rewritten" /\ ~HasDefaultPayload(rtRes.atom))
    => (rtAgain = rtOut /\ rtTree.a = rtRes.atom)
====
